---------------------------- MODULE Spec2Model ----------------------------
(***************************************************************************)
(* State-machine model of homework_1/log_analyzer.py: the __main__ block   *)
(* merges the supplied configuration into DEFAULT_CONFIG and calls main,   *)
(* which locates the latest nginx log, streams it through process_line,    *)
(* applies the errors-limit gate, enriches and ranks the statistics and    *)
(* renders the report.                                                     *)
(*                                                                         *)
(* Numbers.  Request times and percentages are kept as integers in         *)
(* thousandths (1.4 s is 1400), an errors limit in thousandths too (0.64   *)
(* is 640).  Python computes them in binary floating point; for the small  *)
(* counts of this model a quotient k/n and a limit that differ do so by    *)
(* far more than one ulp, so the exact comparison decides as the float     *)
(* comparison does.                                                        *)
(*                                                                         *)
(* File system.  The log directory is a set of file names, the report      *)
(* directory a template file and a map from report names to contents.      *)
(* Every log file of the directory holds the same lines (logLines), as in  *)
(* the fixtures of test_log_anayzer.py.                                    *)
(***************************************************************************)
EXTENDS Integers, Sequences, FiniteSets, TLC

VARIABLES
    logDirExists,           \* os.listdir(LOG_DIR) succeeds
    logDir,                 \* the file names in LOG_DIR
    logLines,               \* the lines of each log file
    reportDirExists,        \* os.path.isdir(REPORT_DIR)
    templateFile,           \* REPORT_DIR/report.html: NoFile or its text
    reports,                \* REPORT_DIR/report-*.html: name -> content
    external_config,        \* the supplied configuration (config.json)
    config,                 \* DEFAULT_CONFIG updated with external_config
    pc,                     \* position of the running invocation
    last_log_file_name,     \* main: result of find_last_log_file
    last_log_info,          \* main: result of extract_file_info
    pos,                    \* parse_log: lines already yielded
    total,                  \* calculate_statistics
    processed,              \* calculate_statistics
    processed_request_time, \* calculate_statistics
    statistics,             \* calculate_statistics
    enriched_statistics,    \* calculate_statistics
    top_statistics,         \* main
    rendered,               \* render_template: s
    reports_before,         \* the reports when this invocation started
    history                 \* one record per finished invocation

\* homework_3.1/store.py: a Store over an underlying storage, one call at a time
VARIABLES
    storage,                \* the underlying storage: key -> value
    store_pc,               \* position of the call in the retry wrapper
    call,                   \* the method and arguments of the call
    attempt,                \* wrapper: attempt
    attempts,               \* what each f(*args, **kwargs) of the call did
    answer,                 \* how the call ended: what it returned or raised
    calls                   \* calls made so far

logVars == <<logDirExists, logDir, logLines, reportDirExists, templateFile,
             reports, external_config, config, pc, last_log_file_name,
             last_log_info, pos, total, processed, processed_request_time,
             statistics, enriched_statistics, top_statistics, rendered,
             reports_before, history>>

storeVars == <<storage, store_pc, call, attempt, attempts, answer, calls>>

\* homework_3.1/scoring.py: get_score over the store, one call at a time
VARIABLES
    score_pc,               \* position of the call in get_score
    score_args,             \* the arguments of the call
    score,                  \* get_score: score, in tenths
    score_attempts,         \* what the attempts of the call's cache_get did
    score_answer,           \* how the call ended: what it returned or raised
    score_calls             \* calls of get_score made so far

scoreVars == <<score_pc, score_args, score, score_attempts, score_answer, score_calls>>

\* homework_3.1/api.py: a field and a value it is asked to validate
VARIABLES
    field,                  \* the field: its class, required and nullable
    field_value,            \* the value
    field_now,              \* the date of datetime.datetime.now()
    field_pc,               \* what has been called so far
    validated,              \* what field.validate(value) raised
    checked                 \* what field.is_valid(value) returned or raised

fieldVars == <<field, field_value, field_now, field_pc, validated, checked>>

\* homework_3.1/api.py: MainHTTPHandler serves one request at a time
VARIABLES
    http_request,           \* the request: path, body and what is in the body
    http_pc,                \* position in do_POST and method_handler
    code,                   \* do_POST: code
    handler_answer,         \* what method_handler returned or raised
    cids_left,              \* get_response: the client ids not yet asked for
    responses               \* one record per response sent

httpVars == <<http_request, http_pc, code, handler_answer, cids_left, responses>>

apiVars == <<fieldVars, httpVars>>

\* everything of homework_3.1
serviceVars == <<storeVars, scoreVars, apiVars>>

vars == <<logVars, storeVars, scoreVars, apiVars>>

(***************************************************************************)
(* Bounds of the model.                                                    *)
(***************************************************************************)
MaxEntries == 2     \* files in the log directory
MaxLines == 3       \* lines in a log file
MaxRuns == 2        \* consecutive invocations of main

MaxCalls == 2      \* calls of the store
MaxScoreCalls == 2  \* calls of get_score
MaxRequests == 1    \* requests sent to the service

(***************************************************************************)
(* File names.  A name of the log directory is its stem, the eight         *)
(* characters after it and its suffix.                                     *)
(***************************************************************************)
LogStem == "nginx-access-ui.log-"

Digits == 0..9

D20170628 == <<2, 0, 1, 7, 0, 6, 2, 8>>

D20170629 == <<2, 0, 1, 7, 0, 6, 2, 9>>

D20171399 == <<2, 0, 1, 7, 1, 3, 9, 9>>

DateStrings == {D20170628, D20170629, D20171399}

Suffixes == {"", ".gz", ".bz2"}

FileNames == [stem : {LogStem}, date : DateStrings, suffix : Suffixes]

\* the empty string '' that find_last_log_file starts from
EmptyStr == <<>>

NoName == [stem |-> "", date |-> EmptyStr, suffix |-> ""]

\* the pattern without its end anchor: any suffix after the digits matches
FileNameMatchAnySuffix(file_name) ==
    /\ file_name.stem = LogStem
    /\ Len(file_name.date) = 8
    /\ \A i \in 1..8 : file_name.date[i] \in Digits

\* FILE_NAME_REGEXP = ^nginx-access-ui\.log-(\d{8})(\.gz)?$
FileNameMatch(file_name) ==
    /\ file_name.stem = LogStem
    /\ Len(file_name.date) = 8
    /\ \A i \in 1..8 : file_name.date[i] \in Digits
    /\ file_name.suffix \in {"", ".gz"}

\* Python's str > str: lexicographic, a proper prefix is the smaller one
RECURSIVE StrGreater(_, _)
StrGreater(a, b) ==
    IF a = <<>> THEN FALSE
    ELSE IF b = <<>> THEN TRUE
    ELSE IF Head(a) # Head(b) THEN Head(a) > Head(b)
    ELSE StrGreater(Tail(a), Tail(b))

\* one pass of the loop of find_last_log_file over the listing, carrying
\* (last_log_file_name, last_log_date)
RECURSIVE FindLoop(_, _)
FindLoop(listing, last) ==
    IF listing = <<>> THEN last
    ELSE LET file_name == Head(listing)
         IN  IF FileNameMatch(file_name) /\ StrGreater(file_name.date, last.date)
             THEN FindLoop(Tail(listing), file_name)
             ELSE FindLoop(Tail(listing), last)

find_last_log_file(listing) == FindLoop(listing, NoName)

\* the orders in which os.listdir may enumerate a directory
Listings(dir) ==
    {l \in [1..Cardinality(dir) -> dir] :
        \A i, j \in 1..Cardinality(dir) : i # j => l[i] # l[j]}

(***************************************************************************)
(* extract_file_info: strptime(file_date, '%Y%m%d').date() and the         *)
(* extension; report_file_name from strftime('%Y.%m.%d').                  *)
(***************************************************************************)
Num2(a, b) == 10 * a + b

Year(s) == 1000 * s[1] + 100 * s[2] + 10 * s[3] + s[4]

Month(s) == Num2(s[5], s[6])

Day(s) == Num2(s[7], s[8])

IsLeap(y) == (y % 4 = 0 /\ y % 100 # 0) \/ y % 400 = 0

DaysInMonth(y, m) ==
    IF m = 2 THEN (IF IsLeap(y) THEN 29 ELSE 28)
    ELSE IF m \in {4, 6, 9, 11} THEN 30 ELSE 31

\* the digits taken as a date without the check of strptime
ValidDateAlways(s) == TRUE

\* strptime succeeds and datetime accepts the fields
ValidDate(s) ==
    /\ Year(s) >= 1
    /\ Month(s) \in 1..12
    /\ Day(s) >= 1
    /\ Day(s) <= DaysInMonth(Year(s), Month(s))

ToDate(s) == [year |-> Year(s), month |-> Month(s), day |-> Day(s)]

NoDate == [year |-> 0, month |-> 0, day |-> 0]

NoInfo == [file_name |-> NoName, date |-> NoDate, extension |-> ""]

extract_file_info(file_name) ==
    [file_name |-> file_name,
     date      |-> ToDate(file_name.date),
     extension |-> IF file_name.suffix = ".gz" THEN "gz" ELSE "plain"]

\* 'report-{0}.html'.format(date.strftime('%Y.%m.%d'))
ReportFileName(date) == <<"report-", date.year, date.month, date.day, ".html">>

(***************************************************************************)
(* Regular expressions.  A pattern is a sequence of items, a string is a   *)
(* sequence of characters, and re_match finds the match that Python's      *)
(* backtracking finds first.                                               *)
(***************************************************************************)
DigitChars == {"0", "1", "2", "3", "4", "5", "6", "7", "8", "9"}

\* One item of a pattern: between min and max characters of class c (max < 0:
\* no upper limit; lazy: fewest first), then the literal characters lit.
\* open and close name the group that starts before and ends after the
\* characters of the class.
Item(c, min, max, lazy, lit, open, close) ==
    [t |-> "item", c |-> c, min |-> min, max |-> max, lazy |-> lazy, lit |-> lit,
     open |-> open, close |-> close, skip |-> 0]

\* ( ... )? around the next skip items
Optional(skip) ==
    [t |-> "optional", c |-> "any", min |-> 0, max |-> 0, lazy |-> FALSE, lit |-> <<>>,
     open |-> "", close |-> "", skip |-> skip]

\* the literal alone: no character of any class before it
Literal(lit) == Item("any", 0, 0, FALSE, lit, "", "")

\* \s+ and the literal after it
Spaces(lit) == Item("space", 1, -1, FALSE, lit, "", "")

\* .*? and the literal after it
LazyAny(lit) == Item("any", 0, -1, TRUE, lit, "", "")

\* .* and the literal after it
GreedyAny(lit) == Item("any", 0, -1, FALSE, lit, "", "")

\* \d{1,3} and the literal after it
Octet(lit) == Item("digit", 1, 3, FALSE, lit, "", "")

\* (?P<ipaddress>...)\s+ ... \"(?P<request_method>.*?)\s+
LogFormatAddress ==
    << Octet(<<".">>), Octet(<<".">>), Octet(<<".">>), Octet(<<>>), Spaces(<<>>),
       LazyAny(<<>>), Spaces(<<>>),
       LazyAny(<<>>), Spaces(<<"[">>), LazyAny(<<"]">>), Spaces(<<"\"">>),
       LazyAny(<<>>), Spaces(<<>>) >>

\* (?P<path>.*): a greedy path
LogFormatGreedyPath == << Item("any", 0, -1, FALSE, <<>>, "path", "path") >>

\* (?P<path>.*?)
LogFormatPath == << Item("any", 0, -1, TRUE, <<>>, "path", "path") >>

\* (?P<request_version>\s+HTTP/.*)?\"\s+ ... \"(?P<http_X_RB_USER>.*)\"\s+
LogFormatHeaders ==
    << Optional(2), Spaces(<<"H", "T", "T", "P", "/">>), GreedyAny(<<>>),
       Literal(<<"\"">>), Spaces(<<>>), LazyAny(<<>>), Spaces(<<>>),
       LazyAny(<<>>), Spaces(<<"\"">>), LazyAny(<<"\"">>), Spaces(<<"\"">>),
       LazyAny(<<"\"">>), Spaces(<<"\"">>),
       LazyAny(<<"\"">>), Spaces(<<"\"">>), LazyAny(<<"\"">>), Spaces(<<"\"">>),
       GreedyAny(<<"\"">>), Spaces(<<>>) >>

\* (?P<request_time>\d*\.?\d*): a request time that may have no digit
LogFormatEmptyTime ==
    << Item("digit", 0, -1, FALSE, <<>>, "request_time", ""),
       Item("dot", 0, 1, FALSE, <<>>, "", ""),
       Item("digit", 0, -1, FALSE, <<>>, "", "request_time") >>

\* (?P<request_time>\d+\.?\d*), and no $ after it
LogFormatTime ==
    << Item("digit", 1, -1, FALSE, <<>>, "request_time", ""),
       Item("dot", 0, 1, FALSE, <<>>, "", ""),
       Item("digit", 0, -1, FALSE, <<>>, "", "request_time") >>

NGINX_LOG_FORMAT_REGEXP ==
    LogFormatAddress \o LogFormatPath \o LogFormatHeaders \o LogFormatTime

InClass(ch, c) ==
    CASE c = "digit" -> ch \in DigitChars
      [] c = "space" -> ch \in {" ", "\t", "\n"}
      [] c = "dot"   -> ch = "."
      [] c = "any"   -> ch # "\n"
      [] OTHER       -> FALSE

\* RunsOf(s, c, <<0>>)[si]: how many characters of s are in class c from
\* position si on, counted from the end of s backwards
RECURSIVE RunsOf(_, _, _)
RunsOf(s, c, runs) ==
    IF Len(runs) > Len(s) THEN runs
    ELSE RunsOf(s, c, <<IF InClass(s[Len(s) + 1 - Len(runs)], c) THEN 1 + runs[1] ELSE 0>>
                      \o runs)

Runs(s) ==
    [digit |-> RunsOf(s, "digit", <<0>>), space |-> RunsOf(s, "space", <<0>>),
     dot |-> RunsOf(s, "dot", <<0>>), any |-> RunsOf(s, "any", <<0>>)]

\* the literal lit ends in s just before position to
LitBefore(s, to, lit) ==
    /\ to - Len(lit) >= 1
    /\ \A j \in 1..Len(lit) : s[to - Len(lit) + j - 1] = lit[j]

\* item it can take the characters of s from position si up to its literal,
\* which ends before position to
Takes(runs, it, si, to) ==
    LET k == to - Len(it.lit) - si
    IN  /\ k >= it.min
        /\ it.max < 0 \/ k <= it.max
        /\ k <= runs[it.c][si]

\* the positions of s from which item it and then the items of table match;
\* table[1] are the positions from which the items after it match
Before(s, runs, it, table) ==
    IF it.t = "optional" THEN table[1] \cup table[1 + it.skip]
    ELSE LET ends == {to \in table[1] : LitBefore(s, to, it.lit)}
         IN  {si \in 1..(Len(s) + 1) :
                /\ runs[it.c][si] >= it.min
                /\ \E to \in ends : Takes(runs, it, si, to)}

\* From(pat, s, runs, <<all positions>>)[pi]: the positions of s from which
\* the items pi.. of pat match, built from the last item backwards
RECURSIVE From(_, _, _, _)
From(pat, s, runs, table) ==
    IF Len(table) > Len(pat) THEN table
    ELSE From(pat, s, runs,
              <<Before(s, runs, pat[Len(pat) + 1 - Len(table)], table)>> \o table)

\* One step of the first match in backtracking order: item pi at position si
\* goes up to position to, the nearest one (lazy) or the farthest one from
\* which the remaining items match; item next starts there.
Step(pat, s, runs, from, pi, si) ==
    LET it == pat[pi]
    IN  IF it.t = "optional"
        THEN [pi |-> pi, si |-> si, to |-> si,
              next |-> IF si \in from[pi + 1] THEN pi + 1 ELSE pi + 1 + it.skip]
        ELSE LET tos == {to \in from[pi + 1] :
                            LitBefore(s, to, it.lit) /\ Takes(runs, it, si, to)}
                 to  == CHOOSE t \in tos : \A u \in tos : IF it.lazy THEN t <= u ELSE t >= u
             IN  [pi |-> pi, si |-> si, to |-> to, next |-> pi + 1]

RECURSIVE Steps(_, _, _, _, _)
Steps(pat, s, runs, from, trail) ==
    IF trail[Len(trail)].next > Len(pat) THEN trail
    ELSE Steps(pat, s, runs, from,
               Append(trail, Step(pat, s, runs, from,
                                  trail[Len(trail)].next, trail[Len(trail)].to)))

GroupNames == {"path", "request_time"}

NoMatchObject == [ok |-> FALSE, group |-> [n \in GroupNames |-> <<>>]]

\* pattern.match(s): the match at the start of s and its named groups
re_match(pat, s) ==
    LET runs == Runs(s)
        from == From(pat, s, runs, << 1..(Len(s) + 1) >>)
    IN  IF 1 \notin from[1] THEN NoMatchObject
        ELSE LET trail == Steps(pat, s, runs, from, <<Step(pat, s, runs, from, 1, 1)>>)
                 at(n, end) == CHOOSE t \in 1..Len(trail) :
                                  IF end THEN pat[trail[t].pi].close = n
                                  ELSE pat[trail[t].pi].open = n
             IN  [ok |-> TRUE,
                  group |-> [n \in GroupNames |->
                               SubSeq(s, trail[at(n, FALSE)].si,
                                      trail[at(n, TRUE)].to - Len(pat[trail[at(n, TRUE)].pi].lit) - 1)]]

(***************************************************************************)
(* Log lines: sequences of characters.                                     *)
(***************************************************************************)
CharDigit(c) ==
    CASE c = "0" -> 0 [] c = "1" -> 1 [] c = "2" -> 2 [] c = "3" -> 3
      [] c = "4" -> 4 [] c = "5" -> 5 [] c = "6" -> 6 [] c = "7" -> 7
      [] c = "8" -> 8 [] c = "9" -> 9

\* length of the longest prefix of s made of digits
RECURSIVE DigitRun(_)
DigitRun(s) ==
    IF s # <<>> /\ Head(s) \in DigitChars THEN 1 + DigitRun(Tail(s)) ELSE 0

Drop(s, n) == SubSeq(s, n + 1, Len(s))

RECURSIVE DigitsValue(_)
DigitsValue(s) ==
    IF s = <<>> THEN 0
    ELSE 10 * DigitsValue(SubSeq(s, 1, Len(s) - 1)) + CharDigit(s[Len(s)])

\* float(text) raises ValueError unless text is digits with at most one "."
\* among them and at least one digit (signs, exponents and blanks do not
\* occur in the texts of the model)
FloatRaises(text) ==
    LET n    == DigitRun(text)
        rest == Drop(text, n)
    IN  IF rest = <<>> THEN n = 0
        ELSE \/ rest[1] # "."
             \/ DigitRun(Drop(rest, 1)) # Len(rest) - 1
             \/ n + Len(rest) - 1 = 0

\* float(text) in thousandths, for text of the form \d+\.?\d{0,3}
FloatThousandths(text) ==
    LET n    == DigitRun(text)
        frac == Drop(text, n + 1)
        pad  == CASE Len(frac) = 0 -> 1000 [] Len(frac) = 1 -> 100
                  [] Len(frac) = 2 -> 10 [] OTHER -> 1
    IN  1000 * DigitsValue(SubSeq(text, 1, n)) + pad * DigitsValue(frac)

NoMatch == [match |-> FALSE, raised |-> FALSE, url |-> <<>>, request_time |-> 0]

ValueError == [match |-> FALSE, raised |-> TRUE, url |-> <<>>, request_time |-> 0]

process_line(line) ==
    LET result == re_match(NGINX_LOG_FORMAT_REGEXP, line)
    IN  IF result.ok
        THEN IF FloatRaises(result.group["request_time"]) THEN ValueError
             ELSE [match |-> TRUE, raised |-> FALSE, url |-> result.group["path"],
                   request_time |-> FloatThousandths(result.group["request_time"])]
        ELSE NoMatch

\* The fields of a line in the order of the log format.  version is empty or
\* starts with a blank; tail is everything after the last quoted header and
\* its blank.
LineText(f) ==
    f.ipaddress \o <<" ">> \o f.remote_user \o <<" ", " ">> \o f.http_x_real_ip
    \o <<" ", "[">> \o f.time_local \o <<"]", " ", "\"">> \o f.request_method
    \o <<" ">> \o f.path \o f.request_version \o <<"\"", " ">> \o f.status
    \o <<" ">> \o f.body_bytes_sent \o <<" ", "\"">> \o f.http_referer
    \o <<"\"", " ", "\"">> \o f.user_agent \o <<"\"", " ", "\"">>
    \o f.http_x_forwarded_for \o <<"\"", " ", "\"">> \o f.http_X_REQUEST_ID
    \o <<"\"", " ", "\"">> \o f.http_X_RB_USER \o <<"\"", " ">> \o f.tail \o <<"\n">>

Api1 == <<"/", "a", "p", "i", "1">>

Api2 == <<"/", "a", "p", "i", "2">>

\* the fields of the first line of test_log_1
TestFields ==
    [ipaddress |-> <<"0", ".", "0", ".", "0", ".", "0">>, remote_user |-> <<"-">>,
     http_x_real_ip |-> <<"-">>, time_local |-> <<>>,
     request_method |-> <<"G", "E", "T">>, path |-> Api1,
     request_version |-> <<" ", "H", "T", "T", "P", "/", "1", ".", "1">>,
     status |-> <<"2", "0", "0">>, body_bytes_sent |-> <<"9", "2", "7">>,
     http_referer |-> <<"-">>, user_agent |-> <<"-">>, http_x_forwarded_for |-> <<"-">>,
     http_X_REQUEST_ID |-> <<"-">>, http_X_RB_USER |-> <<"-">>, tail |-> <<"1">>]

TestLine(path, tail) == LineText([TestFields EXCEPT !.path = path, !.tail = tail])

LineApi1 == TestLine(Api1, <<"1">>)

LineApi2 == TestLine(Api2, <<"2">>)

LineZero == TestLine(Api1, <<"0", ".", "0">>)

\* the last line of test_log_2: a sixth quoted "-" where the time belongs
LineNoTime == TestLine(Api2, <<"\"", "-", "\"">>)

Lines == {LineApi1, LineApi2, LineZero, LineNoTime}

Api3 == <<"/", "a", "p", "i", "3">>

\* the second line of test_log_1
LineApi1Slow == TestLine(Api1, <<"1", ".", "4">>)

LineApi3 == TestLine(Api3, <<"0", ".", "5">>)

\* parseable lines of three paths, two of them with the same total time
StatsLines == {LineApi1, LineApi1Slow, LineApi2, LineApi3}

\* other values of the fields that process_line does not return
OtherFields ==
    [ipaddress |-> <<"1", "2", ".", "3", ".", "4", ".", "5">>, remote_user |-> <<"u">>,
     http_x_real_ip |-> <<"1", ".", "1", ".", "1", ".", "1">>,
     time_local |-> <<"2", "9", "/", "J", " ", "+", "3">>,
     request_method |-> <<"P", "O", "S", "T">>, path |-> Api1,
     request_version |-> <<>>,
     status |-> <<"4", "0", "4">>, body_bytes_sent |-> <<"0">>,
     http_referer |-> <<"h", ":", "/", "/", "a", "/">>,
     user_agent |-> <<"M", "/", "5", " ", "(", "X", ")">>,
     http_x_forwarded_for |-> <<"1", ".", "2", ",", " ", "3">>,
     http_X_REQUEST_ID |-> <<"1", "4", "-", "9">>, http_X_RB_USER |-> <<"x", " ", "7">>,
     tail |-> <<"1">>]

IgnoredFields ==
    {"ipaddress", "remote_user", "http_x_real_ip", "time_local", "request_method",
     "request_version", "status", "body_bytes_sent", "http_referer", "user_agent",
     "http_x_forwarded_for", "http_X_REQUEST_ID", "http_X_RB_USER"}

\* TestFields with the fields of changed taken from OtherFields
Pick(n, changed) == IF n \in changed THEN OtherFields[n] ELSE TestFields[n]

WellFormedFields(path, tail, changed) ==
    [ipaddress |-> Pick("ipaddress", changed),
     remote_user |-> Pick("remote_user", changed),
     http_x_real_ip |-> Pick("http_x_real_ip", changed),
     time_local |-> Pick("time_local", changed),
     request_method |-> Pick("request_method", changed), path |-> path,
     request_version |-> Pick("request_version", changed),
     status |-> Pick("status", changed),
     body_bytes_sent |-> Pick("body_bytes_sent", changed),
     http_referer |-> Pick("http_referer", changed),
     user_agent |-> Pick("user_agent", changed),
     http_x_forwarded_for |-> Pick("http_x_forwarded_for", changed),
     http_X_REQUEST_ID |-> Pick("http_X_REQUEST_ID", changed),
     http_X_RB_USER |-> Pick("http_X_RB_USER", changed), tail |-> tail]

\* no ignored field changed, one of them, or all of them
Changes == {{}, IgnoredFields} \cup {{n} : n \in IgnoredFields}

\* a path, a request time as written and its value in thousandths
Samples ==
    {[path |-> Api1, tail |-> <<"1">>, value |-> 1000],
     [path |-> Api2, tail |-> <<"1", ".", "4">>, value |-> 1400]}

WellFormedLines ==
    {LineText(WellFormedFields(p.path, p.tail, changed)) : p \in Samples, changed \in Changes}

Without(s, i) == SubSeq(s, 1, i - 1) \o SubSeq(s, i + 1, Len(s))

\* the first line of test_log_1 with one of its quotes missing
QuoteMissingLines == {Without(LineApi1, i) : i \in {j \in 1..Len(LineApi1) : LineApi1[j] = "\""}}

\* a sixth quoted header
LineExtraHeader == LineText([TestFields EXCEPT !.http_referer = <<"-", "\"", " ", "\"", "x">>])

\* nothing after the last quoted header
LineTimeMissing == TestLine(Api1, <<>>)

\* digits and then something else after the last quoted header
LineTimeThenLetter == TestLine(Api1, <<"1", "x">>)

LineTimeTwoDots == TestLine(Api1, <<"1", ".", "4", ".", "5">>)

LineTimeSigned == TestLine(Api1, <<"-", "1">>)

MalformedLines ==
    QuoteMissingLines \cup {LineNoTime, LineExtraHeader, LineTimeMissing,
                            LineTimeThenLetter, LineTimeTwoDots, LineTimeSigned}

\* the one-line logs of the well-formed and of the malformed lines
OneLineLogs == {<<line>> : line \in WellFormedLines \cup MalformedLines}

\* every line of the model with what process_line returns for it
ParsedLines ==
    {<<line, process_line(line)>> :
        line \in Lines \cup StatsLines \cup WellFormedLines \cup MalformedLines}

\* parsed_line = process_line(line)
parsed_line(line) == (CHOOSE p \in ParsedLines : p[1] = line)[2]

Logs == UNION {[1..n -> Lines] : n \in 0..MaxLines}

StatsLogs == UNION {[1..n -> StatsLines] : n \in 0..MaxLines}

(***************************************************************************)
(* calculate_statistics.  The dict statistics is the sequence of its       *)
(* items in insertion order, which is the order Python iterates it in.     *)
(***************************************************************************)
HasUrl(stats, url) == \E i \in 1..Len(stats) : stats[i].url = url

\* a request time is recorded for a new path only
SetDefaultOnly(stats, url, request_time) ==
    IF HasUrl(stats, url) THEN stats
    ELSE Append(stats, [url |-> url, data |-> <<request_time>>])

\* statistics.setdefault(url, []).append(request_time)
SetDefaultAppend(stats, url, request_time) ==
    IF HasUrl(stats, url)
    THEN [i \in 1..Len(stats) |->
            IF stats[i].url = url
            THEN [stats[i] EXCEPT !.data = Append(@, request_time)]
            ELSE stats[i]]
    ELSE Append(stats, [url |-> url, data |-> <<request_time>>])

None == [none |-> TRUE, value |-> 0]

Some(v) == [none |-> FALSE, value |-> v]

\* the test with >= in place of >
ErrorsLimitExceedGe(errors_limit, n, k) ==
    /\ ~errors_limit.none
    /\ n > 0
    /\ (n - k) * 1000 >= errors_limit.value * n

\* the test on the share of parsed lines in place of the unparsed ones
ErrorsLimitExceedParsed(errors_limit, n, k) ==
    /\ ~errors_limit.none
    /\ n > 0
    /\ k * 1000 > errors_limit.value * n

\* the test without 'errors_limit is not None'
ErrorsLimitExceedNoneAsZero(errors_limit, n, k) ==
    /\ n > 0
    /\ (n - k) * 1000 > errors_limit.value * n

\* errors_limit is not None and total > 0
\*     and (total - processed) / total > errors_limit
ErrorsLimitExceed(errors_limit, n, k) ==
    /\ ~errors_limit.none
    /\ n > 0
    /\ (n - k) * 1000 > errors_limit.value * n

RECURSIVE Sum(_)
Sum(data) == IF data = <<>> THEN 0 ELSE Head(data) + Sum(Tail(data))

\* the first sample in place of the largest
First(data) == data[1]

RECURSIVE Max(_)
Max(data) ==
    IF Len(data) = 1 THEN data[1]
    ELSE LET m == Max(Tail(data)) IN IF Head(data) > m THEN Head(data) ELSE m

\* round(n / d) to the nearest integer, ties to the even one (n >= 0, d > 0)
RoundDiv(n, d) ==
    LET q == n \div d
        r == n % d
    IN  IF 2 * r < d THEN q
        ELSE IF 2 * r > d THEN q + 1
        ELSE IF q % 2 = 0 THEN q ELSE q + 1

\* sorted(data), by insertion
RECURSIVE SortAsc(_)
SortAsc(data) ==
    IF data = <<>> THEN <<>>
    ELSE LET rest == SortAsc(Tail(data))
             x    == Head(data)
             k    == Cardinality({i \in 1..Len(rest) : rest[i] <= x})
         IN  SubSeq(rest, 1, k) \o <<x>> \o SubSeq(rest, k + 1, Len(rest))

\* the upper of the two middle values in place of their mean
MedianUpper(data) == SortAsc(data)[Len(data) \div 2 + 1]

\* statistics.median(data) in thousandths, rounded as round(_, 3) does
Median(data) ==
    LET s == SortAsc(data)
        n == Len(s)
    IN  IF n % 2 = 1 THEN s[(n + 1) \div 2]
        ELSE RoundDiv(s[n \div 2] + s[n \div 2 + 1], 2)

\* the first division of the enrichment loop that raises ZeroDivisionError
DivisionByZero(stats, all_count, all_time_sum) ==
    /\ stats # <<>>
    /\ (all_count = 0 \/ all_time_sum = 0)

\* the shares as fractions of 1: count_perc and time_perc without the * 100
EnrichOneFractions(url, data, all_count, all_time_sum) ==
    [url        |-> url,
     count      |-> Len(data),
     count_perc |-> RoundDiv(Len(data) * 1000, all_count),
     time_sum   |-> Sum(data),
     time_perc  |-> RoundDiv(Sum(data) * 1000, all_time_sum),
     time_avg   |-> RoundDiv(Sum(data), Len(data)),
     time_max   |-> Max(data),
     time_med   |-> Median(data)]

EnrichOne(url, data, all_count, all_time_sum) ==
    [url        |-> url,
     count      |-> Len(data),
     count_perc |-> RoundDiv(Len(data) * 100000, all_count),
     time_sum   |-> Sum(data),
     time_perc  |-> RoundDiv(Sum(data) * 100000, all_time_sum),
     time_avg   |-> RoundDiv(Sum(data), Len(data)),
     time_max   |-> Max(data),
     time_med   |-> Median(data)]

Enrich(stats, all_count, all_time_sum) ==
    [i \in 1..Len(stats) |->
        EnrichOne(stats[i].url, stats[i].data, all_count, all_time_sum)]

\* sorted(values, key=time_sum, reverse=True): stable, equal keys keep their order
RECURSIVE SortedByTimeSum(_)
SortedByTimeSum(values) ==
    IF values = <<>> THEN <<>>
    ELSE LET n    == Len(values)
             rest == SortedByTimeSum(SubSeq(values, 1, n - 1))
             x    == values[n]
             k    == Cardinality({i \in 1..Len(rest) : rest[i].time_sum >= x.time_sum})
         IN  SubSeq(rest, 1, k) \o <<x>> \o SubSeq(rest, k + 1, Len(rest))

\* values[:report_size]: a negative report_size counts from the end
Truncate(values, report_size) ==
    LET n    == Len(values)
        stop == IF report_size >= 0 THEN report_size ELSE n + report_size
    IN  SubSeq(values, 1, IF stop < 0 THEN 0 ELSE IF stop < n THEN stop ELSE n)

TopStatistics(enriched, report_size) ==
    Truncate(SortedByTimeSum(enriched), report_size)

(***************************************************************************)
(* Files of the report directory.  A content is its text, cut at the       *)
(* places of the token $table_json, and the value written at each place.   *)
(***************************************************************************)
NoFile == [exists |-> FALSE, text |-> <<>>]

TemplateFile == [exists |-> TRUE, text |-> <<"var table = ", ";">>]

EmptyContent == [text |-> <<>>, table_json |-> <<>>]

OldContent == [text |-> <<"<html>old report</html>">>, table_json |-> <<>>]

\* Template(text).safe_substitute(table_json=json.dumps(statistics))
SafeSubstitute(text, table) == [text |-> text, table_json |-> table]

NoReports == <<>>

\* open(path, 'w'): the file exists and is empty
OpenForWriting(files, name) ==
    [n \in DOMAIN files \cup {name} |-> IF n = name THEN EmptyContent ELSE files[n]]

\* f.write(s)
WriteFile(files, name, s) == [files EXCEPT ![name] = s]

(***************************************************************************)
(* Configuration.                                                          *)
(***************************************************************************)
DefaultErrorsLimit == 640

DefaultReportSize == 10

DEFAULT_CONFIG ==
    [REPORT_SIZE |-> DefaultReportSize, ERRORS_LIMIT |-> Some(DefaultErrorsLimit)]

\* config = copy.deepcopy(DEFAULT_CONFIG); config.update(external_config)
ConfigUpdate(defaults, external) ==
    [k \in DOMAIN defaults |->
        IF k \in DOMAIN external THEN external[k] ELSE defaults[k]]

ErrorsLimits == {None, Some(500)}

\* the supplied configuration: without the key, or with one of ErrorsLimits
ExternalConfigs == {<<>>} \cup {[ERRORS_LIMIT |-> l] : l \in ErrorsLimits}

ReportSizes == {-1, 0, 1, 2}

\* the supplied configuration with one of ReportSizes
ReportSizeConfigs == {[REPORT_SIZE |-> n] : n \in ReportSizes}

(***************************************************************************)
(* Initial states: a file system and a supplied configuration, no          *)
(* invocation started.  The directory layout and the log content are       *)
(* varied one at a time around the fixtures of test_log_anayzer.py.        *)
(***************************************************************************)
Dirs == {S \in SUBSET FileNames : Cardinality(S) <= MaxEntries}

\* test_log_1, and a log most of whose lines have no request time
FixtureLogs ==
    {<<LineApi1, LineApi1, LineApi2>>, <<LineApi1, LineNoTime, LineNoTime>>}

\* the log directory of test case 3
FixtureDir == {[stem |-> LogStem, date |-> D20170628, suffix |-> ""]}

ValidReportNames ==
    {ReportFileName(ToDate(d)) : d \in {x \in DateStrings : ValidDate(x)}}

InitialReports ==
    {NoReports} \cup {[n \in {name} |-> OldContent] : name \in ValidReportNames}

ResetLocals ==
    /\ last_log_file_name' = NoName
    /\ last_log_info' = NoInfo
    /\ pos' = 0
    /\ total' = 0
    /\ processed' = 0
    /\ processed_request_time' = 0
    /\ statistics' = <<>>
    /\ enriched_statistics' = <<>>
    /\ top_statistics' = <<>>
    /\ rendered' = EmptyContent

\* the directory layout and the log content varied around the fixtures, with
\* and without ERRORS_LIMIT supplied
GeneralInputs ==
    /\ \/ /\ logDirExists = FALSE
          /\ logDir = {}
          /\ logLines \in FixtureLogs
       \/ /\ logDirExists = TRUE
          /\ logDir \in Dirs
          /\ logLines \in FixtureLogs
       \/ /\ logDirExists = TRUE
          /\ logDir = FixtureDir
          /\ logLines \in Logs \cup OneLineLogs
    /\ \/ /\ reportDirExists = FALSE
          /\ templateFile = NoFile
          /\ reports = NoReports
       \/ /\ reportDirExists = TRUE
          /\ templateFile \in {NoFile, TemplateFile}
          /\ reports \in InitialReports
    /\ external_config \in ExternalConfigs

\* parseable logs and REPORT_SIZE varied, in the directories of test case 1
StatsInputs ==
    /\ logDirExists = TRUE
    /\ logDir = FixtureDir
    /\ logLines \in StatsLogs
    /\ reportDirExists = TRUE
    /\ templateFile = TemplateFile
    /\ reports = NoReports
    /\ external_config \in ReportSizeConfigs

(***************************************************************************)
(* The store of homework_3.1: Store.get, Store.cache_get and               *)
(* Store.cache_set are the storage's get and set under the retry wrapper.  *)
(***************************************************************************)
max_retries == 3

Keys == {"key_0"}

Values == {"0", "1"}

Methods == {"get", "cache_get", "cache_set"}

\* no method is silent
SilentNever(method) == FALSE

\* @retry(max_retries=max_retries, silent=...)
Silent(method) == method # "get"

NoCall == [method |-> "", key |-> "", value |-> "None"]

NoResult == [kind |-> "none", value |-> "None"]

Return(value) == [kind |-> "return", value |-> value]

Raise(exception) == [kind |-> "raise", value |-> exception]

\* one attempt more than range(max_retries) has
InRangeInclusive(n, stop) == n <= stop

\* for attempt in range(max_retries)
InRange(n, stop) == n < stop

\* no call of the store has been made
StoreIdle ==
    /\ store_pc = "idle"
    /\ call = NoCall
    /\ attempt = 0
    /\ attempts = <<>>
    /\ answer = NoResult
    /\ calls = 0

StoreInit ==
    /\ storage = [k \in Keys |-> "None"]
    /\ StoreIdle

(***************************************************************************)
(* The values get_score is called with, and what Python makes of them.     *)
(***************************************************************************)
\* a value is its type, str(value) and, for a list, the types of its items
PyNone == [type |-> "NoneType", text |-> "None", items |-> <<>>]

PyStr(text) == [type |-> "str", text |-> text, items |-> <<>>]

PyInt(text) == [type |-> "int", text |-> text, items |-> <<>>]

PyBool(text) == [type |-> "bool", text |-> text, items |-> <<>>]

PyFloat(text) == [type |-> "float", text |-> text, items |-> <<>>]

PyDict(text) == [type |-> "dict", text |-> text, items |-> <<>>]

PyList(text, items) == [type |-> "list", text |-> text, items |-> items]

\* bool(value)
Truthy(value) ==
    CASE value.type = "NoneType" -> FALSE
      [] value.type = "str" -> value.text # ""
      [] value.type = "int" -> value.text # "0"
      [] value.type = "bool" -> value.text = "True"
      [] value.type = "float" -> value.text # "0.0"
      [] value.type = "dict" -> value.text # "{}"
      [] value.type = "list" -> value.text # "[]"

\* isinstance(value, type): a bool is an int
IsInstance(value, type) ==
    value.type = type \/ (type = "int" /\ value.type = "bool")

\* value or ""
OrEmpty(value) == IF Truthy(value) THEN value.text ELSE ""

\* str(value) or ""
StrOrEmpty(value) == IF value.text # "" THEN value.text ELSE ""

Arguments(phone, email, birthday, gender, first_name, last_name) ==
    [phone |-> phone, email |-> email, birthday |-> birthday, gender |-> gender,
     first_name |-> first_name, last_name |-> last_name]

NoArguments == Arguments(PyNone, PyNone, PyNone, PyNone, PyNone, PyNone)

Phone == PyStr("79175002040")

Email == PyStr("stupnikov@otus.ru")

Birthday == PyStr("01.01.1990")

ScoreArguments ==
    { NoArguments,
      Arguments(Phone, Email, PyNone, PyNone, PyNone, PyNone),
      Arguments(Phone, PyNone, PyNone, PyNone, PyNone, PyNone),
      Arguments(PyNone, PyNone, Birthday, PyInt("1"), PyNone, PyNone),
      Arguments(PyNone, PyNone, Birthday, PyInt("0"), PyNone, PyNone),
      Arguments(PyNone, PyNone, PyNone, PyNone, PyStr("a"), PyStr("b")),
      Arguments(PyNone, PyNone, PyNone, PyNone, PyStr("ab"), PyStr("")) }

\* key = "uid:" + hashlib.md5("".join(key_parts).encode('utf-8')).hexdigest(),
\* the digest of a text written as the text: different texts have
\* different digests
ScoreKey(args) ==
    "uid:" \o OrEmpty(args.first_name) \o OrEmpty(args.last_name)
           \o StrOrEmpty(args.phone) \o OrEmpty(args.birthday)

ScoreKeys == {ScoreKey(args) : args \in ScoreArguments}

\* the scores get_score can compute, in tenths
Scores == {0, 5, 15, 20, 30, 35, 45, 50}

\* str(score): 0 is the int 0, every other score is a float
StrOfScore(tenths) ==
    IF tenths = 0 THEN "0"
    ELSE ToString(tenths \div 10) \o "." \o ToString(tenths % 10)

\* float(score) of a cached text, in tenths
FloatOfScore(text) == CHOOSE tenths \in Scores : StrOfScore(tenths) = text

\* score += 1.5 ... score += 0.5
ComputedScore(args) ==
    LET afterPhone    == IF Truthy(args.phone) THEN 15 ELSE 0
        afterEmail    == IF Truthy(args.email) THEN afterPhone + 15 ELSE afterPhone
        afterBirthday == IF Truthy(args.birthday) /\ Truthy(args.gender)
                         THEN afterEmail + 15 ELSE afterEmail
    IN  IF Truthy(args.first_name) /\ Truthy(args.last_name)
        THEN afterBirthday + 5 ELSE afterBirthday

NoScore == [kind |-> "none", value |-> 0]

ReturnScore(tenths) == [kind |-> "return", value |-> tenths]

RaiseFromScore == [kind |-> "raise", value |-> 0]

(***************************************************************************)
(* The fields of api.py.                                                   *)
(***************************************************************************)
FieldKinds ==
    {"char", "phone", "email", "date", "birthday", "gender", "arguments", "client_ids"}

Fields == [kind : FieldKinds, required : BOOLEAN, nullable : BOOLEAN]

NoException == ""

\* the characters of a text
Chars(text) == <<>> \o [i \in 1..Len(text) |-> SubSeq(text, i, i)]

\* text.startswith(prefix)
StartsWith(text, prefix) ==
    Len(text) >= Len(prefix) /\ SubSeq(text, 1, Len(prefix)) = prefix

\* ch in text
Contains(text, ch) == \E i \in 1..Len(text) : SubSeq(text, i, i) = ch

AllDigits(text) == \A i \in 1..Len(text) : SubSeq(text, i, i) \in DigitChars

\* the places of the two dots of a text made of a day of 1 or 2 digits, a
\* month of 1 or 2 digits and a year of 4 digits
DateDots(text) ==
    {d \in (1..Len(text)) \X (1..Len(text)) :
        /\ d[1] < d[2]
        /\ SubSeq(text, d[1], d[1]) = "."
        /\ SubSeq(text, d[2], d[2]) = "."
        /\ d[1] - 1 \in 1..2
        /\ d[2] - d[1] - 1 \in 1..2
        /\ Len(text) - d[2] = 4
        /\ AllDigits(SubSeq(text, 1, d[1] - 1))
        /\ AllDigits(SubSeq(text, d[1] + 1, d[2] - 1))
        /\ AllDigits(SubSeq(text, d[2] + 1, Len(text)))}

\* the fields of a text that DateDots accepts
DateFields(text) ==
    LET d == CHOOSE d \in DateDots(text) : TRUE
    IN  [day   |-> DigitsValue(Chars(SubSeq(text, 1, d[1] - 1))),
         month |-> DigitsValue(Chars(SubSeq(text, d[1] + 1, d[2] - 1))),
         year  |-> DigitsValue(Chars(SubSeq(text, d[2] + 1, Len(text))))]

\* datetime.datetime.strptime(text, '%d.%m.%Y') raises ValueError
StrptimeRaises(text) ==
    \/ DateDots(text) = {}
    \/ LET date == DateFields(text)
       IN  \/ date.year < 1
           \/ date.month \notin 1..12
           \/ date.day < 1
           \/ date.day > DaysInMonth(date.year, date.month)

\* the days of the months before month m of year y
DaysBeforeMonth(y, m) ==
    <<0, 31, 59, 90, 120, 151, 181, 212, 243, 273, 304, 334>>[m]
        + (IF m > 2 /\ IsLeap(y) THEN 1 ELSE 0)

\* date.toordinal()
Ordinal(date) ==
    LET y == date.year - 1
    IN  365 * y + (y \div 4) - (y \div 100) + (y \div 400)
            + DaysBeforeMonth(date.year, date.month) + date.day

\* (current_datetime - birthday_datetime).days / 365 is outside 0..70
AgeOutOfRange(text, now) ==
    LET days == Ordinal(now) - Ordinal(DateFields(text))
    IN  days < 0 \/ days > 70 * 365

\* BaseField.validate(value, valid_type_list)
BaseValidate(f, value, valid_type_list) ==
    IF value.type = "NoneType" /\ f.required THEN "ValueError"
    ELSE IF ~Truthy(value) /\ ~f.nullable THEN "ValueError"
    ELSE IF /\ value.type # "NoneType"
            /\ valid_type_list # {}
            /\ \A type \in valid_type_list : ~IsInstance(value, type)
         THEN "TypeError"
         ELSE NoException

CharValidate(f, value) == BaseValidate(f, value, {"str"})

PhoneValidate(f, value) ==
    LET base == BaseValidate(f, value, {"str", "int"})
    IN  IF base # NoException THEN base
        ELSE IF Truthy(value) /\ ~StartsWith(value.text, "7") THEN "ValueError"
        ELSE IF Truthy(value) /\ Len(value.text) # 11 THEN "ValueError"
        ELSE NoException

EmailValidate(f, value) ==
    LET base == CharValidate(f, value)
    IN  IF base # NoException THEN base
        ELSE IF Truthy(value) /\ ~Contains(value.text, "@") THEN "ValueError"
        ELSE NoException

DateValidate(f, value) ==
    LET base == CharValidate(f, value)
    IN  IF base # NoException THEN base
        ELSE IF Truthy(value) /\ StrptimeRaises(value.text) THEN "ValueError"
        ELSE NoException

BirthDayValidate(f, value, now) ==
    LET base == DateValidate(f, value)
    IN  IF base # NoException THEN base
        ELSE IF Truthy(value) /\ AgeOutOfRange(value.text, now) THEN "ValueError"
        ELSE NoException

\* value in GENDERS: True is 1 and False is 0
InGenders(value) == value.text \in {"0", "1", "2", "True", "False"}

GenderValidate(f, value) ==
    LET base == BaseValidate(f, value, {"int"})
    IN  IF base # NoException THEN base
        ELSE IF Truthy(value) /\ ~InGenders(value) THEN "ValueError"
        ELSE NoException

ArgumentsValidate(f, value) == BaseValidate(f, value, {"dict"})

ClientIDsValidate(f, value) ==
    LET base == BaseValidate(f, value, {"list", "tuple"})
    IN  IF base # NoException THEN base
        ELSE IF /\ Truthy(value)
                /\ \E i \in 1..Len(value.items) : value.items[i] \notin {"int", "bool"}
             THEN "ValueError"
             ELSE NoException

\* field.validate(value): what it raises
validate(f, value, now) ==
    CASE f.kind = "char" -> CharValidate(f, value)
      [] f.kind = "phone" -> PhoneValidate(f, value)
      [] f.kind = "email" -> EmailValidate(f, value)
      [] f.kind = "date" -> DateValidate(f, value)
      [] f.kind = "birthday" -> BirthDayValidate(f, value, now)
      [] f.kind = "gender" -> GenderValidate(f, value)
      [] f.kind = "arguments" -> ArgumentsValidate(f, value)
      [] f.kind = "client_ids" -> ClientIDsValidate(f, value)

\* repr(e)
Repr(exception) == exception \o "(...)"

\* an except clause that lets TypeError through
CatchesValueErrorOnly(clause, exception) == exception = "ValueError"

\* except clause: the exception is an instance of the clause's class
Catches(clause, exception) ==
    \/ exception = clause
    \/ clause = "Exception" /\ exception \in {"ValueError", "TypeError"}

NotChecked == [raised |-> NoException, valid |-> FALSE, error_msg |-> "not called"]

\* field.is_valid(value)
is_valid(f, value, now) ==
    LET e == validate(f, value, now)
    IN  IF e # NoException /\ ~Catches("Exception", e)
        THEN [raised |-> e, valid |-> FALSE, error_msg |-> ""]
        ELSE LET error_msg == IF e = NoException THEN "" ELSE Repr(e)
             IN  [raised |-> NoException, valid |-> error_msg = "", error_msg |-> error_msg]

Date(day, month, year) == [day |-> day, month |-> month, year |-> year]

\* days on which the service may run
Nows == {Date(1, 6, 2018), Date(5, 11, 2026), Date(1, 1, 2061)}

FieldValues ==
    { PyNone,
      PyStr(""), PyStr("value"), PyStr("71234567890"), PyStr("+7123456789"),
      PyStr("abd"), PyStr("@"), PyStr("some@email.com"), PyStr("some_email.com"),
      PyStr("24.03.1990"), PyStr("1990.03.24"), PyStr("03.24.1990"),
      PyStr("1.1.1990"), PyStr("29.02.1990"), PyStr("24.03.1900"),
      PyStr("24.03.2090"),
      PyInt("0"), PyInt("1"), PyInt("2"), PyInt("3"), PyInt("-1"), PyInt("777"),
      PyInt("12312"), PyInt("71234567890"), PyInt("7123456789"),
      PyInt("81234567890"),
      PyBool("True"), PyBool("False"),
      PyFloat("1.1"), PyFloat("3.1"), PyFloat("0.0"),
      PyDict("{}"), PyDict("{1: 2, 3: 4}"),
      PyList("[]", <<>>), PyList("[0, 1, 2]", <<"int", "int", "int">>),
      PyList("[0, 1.1]", <<"int", "float">>), PyList("[2.2]", <<"float">>) }

\* no field has been asked
FieldIdle ==
    /\ field = [kind |-> "char", required |-> FALSE, nullable |-> FALSE]
    /\ field_value = PyNone
    /\ field_now = Date(5, 11, 2026)
    /\ field_pc = "idle"
    /\ validated = NoException
    /\ checked = NotChecked

(***************************************************************************)
(* The requests of api.py and the checks of method_handler.                *)
(***************************************************************************)
OK == 200

BAD_REQUEST == 400

FORBIDDEN == 403

NOT_FOUND == 404

INVALID_REQUEST == 422

INTERNAL_ERROR == 500

SALT == "Otus"

ADMIN_LOGIN == "admin"

ADMIN_SALT == "42"

Field(kind, required, nullable) ==
    [kind |-> kind, required |-> required, nullable |-> nullable]

\* class MethodRequest
MethodRequest ==
    [account   |-> Field("char", FALSE, TRUE),
     login     |-> Field("char", TRUE, TRUE),
     token     |-> Field("char", TRUE, TRUE),
     arguments |-> Field("arguments", TRUE, TRUE),
     method    |-> Field("char", TRUE, FALSE)]

\* class OnlineScoreRequest
OnlineScoreRequest ==
    [first_name |-> Field("char", FALSE, TRUE),
     last_name  |-> Field("char", FALSE, TRUE),
     email      |-> Field("email", FALSE, TRUE),
     phone      |-> Field("phone", FALSE, TRUE),
     birthday   |-> Field("birthday", FALSE, TRUE),
     gender     |-> Field("gender", FALSE, TRUE)]

\* class ClientsInterestsRequest
ClientsInterestsRequest ==
    [client_ids |-> Field("client_ids", TRUE, FALSE),
     date       |-> Field("date", FALSE, TRUE)]

\* BaseRequest.validate: the fields of the request that are not valid
Errors(class, values, now) ==
    {name \in DOMAIN class : ~is_valid(class[name], values[name], now).valid}

\* OnlineScoreRequest.validate: a pair of values of which none is None
HasPair(values) ==
    \/ values.phone # PyNone /\ values.email # PyNone
    \/ values.first_name # PyNone /\ values.last_name # PyNone
    \/ values.gender # PyNone /\ values.birthday # PyNone

\* hashlib.sha512(msg.encode('utf-8')).hexdigest(), the digest of a text
\* written as the text: different texts have different digests
Sha512(msg) == "sha512:" \o msg

TwoDigits(n) == IF n < 10 THEN "0" \o ToString(n) ELSE ToString(n)

\* datetime.datetime.now().strftime("%Y%m%d%H"), at noon
HourStamp(now) ==
    ToString(now.year) \o TwoDigits(now.month) \o TwoDigits(now.day) \o "12"

\* MethodRequest.is_admin
IsAdmin(values) == values.login = PyStr(ADMIN_LOGIN)

\* check_auth: request.account + request.login + SALT raises TypeError
\* unless both are texts
AuthRaises(values) ==
    ~IsAdmin(values) /\ (values.account.type # "str" \/ values.login.type # "str")

\* check_auth, when it does not raise
check_auth(values, now) ==
    LET msg == IF IsAdmin(values) THEN HourStamp(now) \o ADMIN_SALT
               ELSE values.account.text \o values.login.text \o SALT
    IN  values.token.type = "str" /\ Sha512(msg) = values.token.text

\* handlers
Handlers == {"online_score", "clients_interests"}

\* method_handler up to handler.get_response: the code it returns, the
\* exception it raises, or the response it goes on to compute
method_handler(request, now) ==
    IF request.body.type # "dict" THEN [kind |-> "raise", code |-> 0, what |-> "AttributeError"]
    ELSE IF Errors(MethodRequest, request.fields, now) # {}
    THEN [kind |-> "return", code |-> INVALID_REQUEST, what |-> ""]
    ELSE IF AuthRaises(request.fields)
    THEN [kind |-> "raise", code |-> 0, what |-> "TypeError"]
    ELSE IF ~check_auth(request.fields, now)
    THEN [kind |-> "return", code |-> FORBIDDEN, what |-> ""]
    ELSE IF request.fields.method.text \notin Handlers
    THEN [kind |-> "return", code |-> NOT_FOUND, what |-> ""]
    ELSE IF request.fields.method.text = "online_score"
    THEN IF Errors(OnlineScoreRequest, request.args, now) # {} \/ ~HasPair(request.args)
         THEN [kind |-> "return", code |-> INVALID_REQUEST, what |-> ""]
         ELSE IF IsAdmin(request.fields)
         THEN [kind |-> "return", code |-> OK, what |-> "42"]
         ELSE [kind |-> "get_response", code |-> OK, what |-> "get_score"]
    ELSE IF Errors(ClientsInterestsRequest, request.args, now) # {}
         THEN [kind |-> "return", code |-> INVALID_REQUEST, what |-> ""]
         ELSE [kind |-> "get_response", code |-> OK, what |-> "get_interests"]

(***************************************************************************)
(* The requests sent to the service.                                       *)
(***************************************************************************)
Today == Date(5, 11, 2026)

ArgumentsOf(phone, email, first_name, last_name, birthday, gender, client_ids, date) ==
    [phone |-> phone, email |-> email, first_name |-> first_name,
     last_name |-> last_name, birthday |-> birthday, gender |-> gender,
     client_ids |-> client_ids, date |-> date]

\* no argument is given
NoArgs == ArgumentsOf(PyNone, PyNone, PyNone, PyNone, PyNone, PyNone, PyNone, PyNone)

\* the value of "arguments", the arguments in it, and the client ids
ArgumentsValues ==
    { [value |-> PyNone, args |-> NoArgs, cids |-> <<>>],
      [value |-> PyStr("arguments"), args |-> NoArgs, cids |-> <<>>],
      [value |-> PyDict("{}"), args |-> NoArgs, cids |-> <<>>],
      [value |-> PyDict("{\"phone\": \"71234567890\", \"email\": \"a@b\"}"),
       args  |-> ArgumentsOf(PyStr("71234567890"), PyStr("a@b"), PyNone, PyNone,
                             PyNone, PyNone, PyNone, PyNone),
       cids  |-> <<>>],
      [value |-> PyDict("{\"phone\": \"1\", \"email\": \"a@b\"}"),
       args  |-> ArgumentsOf(PyStr("1"), PyStr("a@b"), PyNone, PyNone,
                             PyNone, PyNone, PyNone, PyNone),
       cids  |-> <<>>],
      [value |-> PyDict("{\"client_ids\": [1, 2]}"),
       args  |-> ArgumentsOf(PyNone, PyNone, PyNone, PyNone, PyNone, PyNone,
                             PyList("[1, 2]", <<"int", "int">>), PyNone),
       cids  |-> <<"1", "2">>],
      [value |-> PyDict("{\"client_ids\": []}"),
       args  |-> ArgumentsOf(PyNone, PyNone, PyNone, PyNone, PyNone, PyNone,
                             PyList("[]", <<>>), PyNone),
       cids  |-> <<>>] }

Accounts == {PyNone, PyStr("acc")}

Logins == {PyNone, PyStr("user"), PyStr(ADMIN_LOGIN)}

\* a wrong token, the token of account "acc" and login "user", the token of
\* the administrator
Tokens ==
    { PyStr("bad"),
      PyStr(Sha512("acc" \o "user" \o SALT)),
      PyStr(Sha512(HourStamp(Today) \o ADMIN_SALT)) }

MethodNames == {PyStr(""), PyStr("online_score"), PyStr("clients_interests"), PyStr("unknown")}

NoFields ==
    [account |-> PyNone, login |-> PyNone, token |-> PyNone, arguments |-> PyNone,
     method |-> PyNone]

\* the bodies that are JSON objects with some of the five fields
ObjectBodies ==
    { [body   |-> PyDict("{...}"),
       fields |-> [account |-> account, login |-> login, token |-> token,
                   arguments |-> arguments.value, method |-> method],
       args   |-> arguments.args,
       cids   |-> arguments.cids] :
      account \in Accounts, login \in Logins, token \in Tokens,
      arguments \in ArgumentsValues, method \in MethodNames }

\* the bodies that are JSON but no object with fields: {}, [], 0, [1], "text"
OtherBodies ==
    { [body |-> body, fields |-> NoFields, args |-> NoArgs, cids |-> <<>>] :
      body \in {PyDict("{}"), PyList("[]", <<>>), PyInt("0"),
                PyList("[1]", <<"int">>), PyStr("text")} }

\* a body that json.loads refuses
NotJson == [body |-> PyNone, fields |-> NoFields, args |-> NoArgs, cids |-> <<>>]

Paths == {"/method", "/other"}

\* MainHTTPHandler.router
Router == {"method"}

\* path.strip("/") of the paths of the model
Strip(path) == SubSeq(path, 2, Len(path))

Requests ==
    { [path |-> path, json |-> TRUE, body |-> b.body, fields |-> b.fields,
       args |-> b.args, cids |-> b.cids] :
      path \in Paths, b \in ObjectBodies \cup OtherBodies }
    \cup
    { [path |-> path, json |-> FALSE, body |-> NotJson.body, fields |-> NotJson.fields,
       args |-> NotJson.args, cids |-> NotJson.cids] : path \in Paths }

NoRequest ==
    [path |-> "", json |-> FALSE, body |-> PyNone, fields |-> NoFields,
     args |-> NoArgs, cids |-> <<>>]

NoAnswer == [kind |-> "none", code |-> 0, what |-> ""]

\* no request has been received
HttpIdle ==
    /\ http_request = NoRequest
    /\ http_pc = "idle"
    /\ code = OK
    /\ handler_answer = NoAnswer
    /\ cids_left = <<>>
    /\ responses = <<>>

\* no call of get_score has been made
ScoreIdle ==
    /\ score_pc = "idle"
    /\ score_args = NoArguments
    /\ score = 0
    /\ score_attempts = <<>>
    /\ score_answer = NoScore
    /\ score_calls = 0

\* no invocation of main has started
IdleLocals ==
    /\ config = DEFAULT_CONFIG
    /\ pc = "idle"
    /\ last_log_file_name = NoName
    /\ last_log_info = NoInfo
    /\ pos = 0
    /\ total = 0
    /\ processed = 0
    /\ processed_request_time = 0
    /\ statistics = <<>>
    /\ enriched_statistics = <<>>
    /\ top_statistics = <<>>
    /\ rendered = EmptyContent
    /\ reports_before = reports
    /\ history = <<>>

Init ==
    /\ GeneralInputs \/ StatsInputs
    /\ IdleLocals
    /\ StoreInit
    /\ ScoreIdle
    /\ FieldIdle
    /\ HttpIdle

FileSystemInputsUnchanged ==
    UNCHANGED <<logDirExists, logDir, logLines, reportDirExists, templateFile,
                external_config>>

\* the invocation ends: main returns, raises into the except of __main__,
\* or the process is gone
Finish(outcome, error, selected, after) ==
    /\ pc' = "idle"
    /\ history' = Append(history,
                         [outcome  |-> outcome,
                          error    |-> error,
                          selected |-> selected,
                          before   |-> reports_before,
                          after    |-> after])
    /\ reports' = after
    /\ last_log_file_name' = NoName
    /\ last_log_info' = NoInfo
    /\ pos' = 0
    /\ total' = 0
    /\ processed' = 0
    /\ processed_request_time' = 0
    /\ statistics' = <<>>
    /\ enriched_statistics' = <<>>
    /\ top_statistics' = <<>>
    /\ rendered' = EmptyContent
    /\ UNCHANGED <<config, reports_before>>

\* __main__: the configuration is merged and main(config) is called
Start ==
    /\ pc = "idle"
    /\ Len(history) < MaxRuns
    /\ config' = ConfigUpdate(DEFAULT_CONFIG, external_config)
    /\ reports_before' = reports
    /\ pc' = "find_last_log_file"
    /\ ResetLocals
    /\ FileSystemInputsUnchanged
    /\ UNCHANGED serviceVars
    /\ UNCHANGED <<reports, history>>

\* main: last_log_file_name = find_last_log_file(config['LOG_DIR'])
FindLastLogFile ==
    /\ pc = "find_last_log_file"
    /\ IF ~logDirExists
       THEN Finish("RAISED", "FileNotFoundError: LOG_DIR", NoName, reports)
       ELSE \E listing \in Listings(logDir) :
              IF find_last_log_file(listing) = NoName
              THEN Finish("NO_LOG_FOUND", "", NoName, reports)
              ELSE /\ last_log_file_name' = find_last_log_file(listing)
                   /\ pc' = "extract_file_info"
                   /\ UNCHANGED <<reports, config, last_log_info, pos, total,
                                  processed, processed_request_time, statistics,
                                  enriched_statistics, top_statistics, rendered,
                                  reports_before, history>>
    /\ FileSystemInputsUnchanged
    /\ UNCHANGED serviceVars

\* main: last_log_info = extract_file_info(last_log_file_name)
ExtractFileInfo ==
    /\ pc = "extract_file_info"
    /\ IF ~ValidDate(last_log_file_name.date)
       THEN Finish("RAISED", "Not correct time format", last_log_file_name, reports)
       ELSE /\ last_log_info' = extract_file_info(last_log_file_name)
            /\ pc' = "check_report_dir"
            /\ UNCHANGED <<reports, last_log_file_name, config, pos, total,
                           processed, processed_request_time, statistics,
                           enriched_statistics, top_statistics, rendered,
                           reports_before, history>>
    /\ FileSystemInputsUnchanged
    /\ UNCHANGED serviceVars

\* main: if not os.path.isdir(config['REPORT_DIR'])
CheckReportDir ==
    /\ pc = "check_report_dir"
    /\ IF ~reportDirExists
       THEN Finish("NO_REPORT_DIR", "", last_log_file_name, reports)
       ELSE /\ pc' = "check_report_file"
            /\ UNCHANGED <<reports, last_log_file_name, config,
                           last_log_info, pos, total, processed,
                           processed_request_time, statistics,
                           enriched_statistics, top_statistics, rendered,
                           reports_before, history>>
    /\ FileSystemInputsUnchanged
    /\ UNCHANGED serviceVars

\* the test of the existing report left out
IsFileNever(files, name) == FALSE

\* os.path.isfile(report_file_path)
IsFile(files, name) == name \in DOMAIN files

\* main: if os.path.isfile(report_file_path)
CheckReportFile ==
    /\ pc = "check_report_file"
    /\ IF IsFile(reports, ReportFileName(last_log_info.date))
       THEN Finish("UP_TO_DATE", "", last_log_file_name, reports)
       ELSE /\ pc' = "parse_log"
            /\ UNCHANGED <<reports, last_log_file_name, config,
                           last_log_info, pos, total, processed,
                           processed_request_time, statistics,
                           enriched_statistics, top_statistics, rendered,
                           reports_before, history>>
    /\ FileSystemInputsUnchanged
    /\ UNCHANGED serviceVars

\* calculate_statistics: one turn of the loop over parse_log
ProcessLine ==
    /\ pc = "parse_log"
    /\ pos < Len(logLines)
    /\ LET parsed == parsed_line(logLines[pos + 1])
       IN  IF parsed.raised
           THEN Finish("RAISED", "ValueError", last_log_file_name, reports)
           ELSE /\ pos' = pos + 1
                /\ total' = total + 1
                /\ IF parsed.match
                   THEN /\ processed' = processed + 1
                        /\ statistics' = SetDefaultAppend(statistics, parsed.url,
                                                          parsed.request_time)
                        /\ processed_request_time' =
                               processed_request_time + parsed.request_time
                   ELSE UNCHANGED <<processed, statistics, processed_request_time>>
                /\ UNCHANGED <<reports, config, pc, last_log_file_name, last_log_info,
                               enriched_statistics, top_statistics, rendered,
                               reports_before, history>>
    /\ FileSystemInputsUnchanged
    /\ UNCHANGED serviceVars

\* calculate_statistics: the log is exhausted, the errors limit is tested
CheckErrorsLimit ==
    /\ pc = "parse_log"
    /\ pos = Len(logLines)
    /\ IF ErrorsLimitExceed(config.ERRORS_LIMIT, total, processed)
       THEN Finish("RAISED", "Errors limit exceed", last_log_file_name, reports)
       ELSE /\ pc' = "enrich"
            /\ UNCHANGED <<reports, last_log_file_name, config,
                           last_log_info, pos, total, processed,
                           processed_request_time, statistics,
                           enriched_statistics, top_statistics, rendered,
                           reports_before, history>>
    /\ FileSystemInputsUnchanged
    /\ UNCHANGED serviceVars

\* calculate_statistics: the enrichment loop and the return
EnrichStatistics ==
    /\ pc = "enrich"
    /\ IF DivisionByZero(statistics, processed, processed_request_time)
       THEN Finish("RAISED", "ZeroDivisionError", last_log_file_name, reports)
       ELSE /\ enriched_statistics' =
                   Enrich(statistics, processed, processed_request_time)
            /\ pc' = "rank"
            /\ UNCHANGED <<reports, last_log_file_name, config,
                           last_log_info, pos, total, processed,
                           processed_request_time, statistics, top_statistics,
                           rendered, reports_before, history>>
    /\ FileSystemInputsUnchanged
    /\ UNCHANGED serviceVars

\* main: top_statistics = sorted(...)[:config['REPORT_SIZE']]
Rank ==
    /\ pc = "rank"
    /\ top_statistics' = TopStatistics(enriched_statistics, config.REPORT_SIZE)
    /\ pc' = "render_read"
    /\ FileSystemInputsUnchanged
    /\ UNCHANGED serviceVars
    /\ UNCHANGED <<reports, config, last_log_file_name, last_log_info, pos, total,
                   processed, processed_request_time, statistics,
                   enriched_statistics, rendered, reports_before, history>>

\* render_template: the template is read and substituted
RenderRead ==
    /\ pc = "render_read"
    /\ IF ~templateFile.exists
       THEN Finish("RAISED", "FileNotFoundError: report.html", last_log_file_name, reports)
       ELSE /\ rendered' = SafeSubstitute(templateFile.text, top_statistics)
            /\ pc' = "render_open"
            /\ UNCHANGED <<reports, last_log_file_name, config,
                           last_log_info, pos, total, processed,
                           processed_request_time, statistics,
                           enriched_statistics, top_statistics, reports_before,
                           history>>
    /\ FileSystemInputsUnchanged
    /\ UNCHANGED serviceVars

\* render_template: open(report_file_path, 'w')
RenderOpen ==
    /\ pc = "render_open"
    /\ reports' = OpenForWriting(reports, ReportFileName(last_log_info.date))
    /\ pc' = "render_write"
    /\ FileSystemInputsUnchanged
    /\ UNCHANGED serviceVars
    /\ UNCHANGED <<config, last_log_file_name, last_log_info, pos, total,
                   processed, processed_request_time, statistics,
                   enriched_statistics, top_statistics, rendered, reports_before,
                   history>>

\* render_template: f.write(s), the file is closed and main returns
RenderWrite ==
    /\ pc = "render_write"
    /\ Finish("DONE", "", last_log_file_name,
              WriteFile(reports, ReportFileName(last_log_info.date), rendered))
    /\ FileSystemInputsUnchanged
    /\ UNCHANGED serviceVars

\* the process is terminated from outside while main runs
Terminate ==
    /\ pc # "idle"
    /\ Finish("KILLED", "", NoName, reports)
    /\ FileSystemInputsUnchanged
    /\ UNCHANGED serviceVars

Next ==
    \/ Start
    \/ FindLastLogFile
    \/ ExtractFileInfo
    \/ CheckReportDir
    \/ CheckReportFile
    \/ ProcessLine
    \/ CheckErrorsLimit
    \/ EnrichStatistics
    \/ Rank
    \/ RenderRead
    \/ RenderOpen
    \/ RenderWrite
    \/ Terminate

Spec == Init /\ [][Next]_vars

(***************************************************************************)
(* The calls of the store.  The log analyzer does not run meanwhile.       *)
(***************************************************************************)
\* an empty file system and no configuration
NoInputs ==
    /\ logDirExists = FALSE
    /\ logDir = {}
    /\ logLines = <<>>
    /\ reportDirExists = FALSE
    /\ templateFile = NoFile
    /\ reports = NoReports
    /\ external_config = <<>>

InitStore ==
    /\ NoInputs
    /\ IdleLocals
    /\ StoreInit
    /\ ScoreIdle
    /\ FieldIdle
    /\ HttpIdle

\* store.get(key), store.cache_get(key) or store.cache_set(key, value): the
\* wrapper starts its loop
Call ==
    /\ store_pc = "idle"
    /\ calls < MaxCalls
    /\ \E m \in Methods, k \in Keys, v \in Values :
          call' = [method |-> m, key |-> k,
                   value |-> IF m = "cache_set" THEN v ELSE "None"]
    /\ calls' = calls + 1
    /\ attempt' = 0
    /\ attempts' = <<>>
    /\ answer' = NoResult
    /\ store_pc' = "loop"
    /\ UNCHANGED storage
    /\ UNCHANGED logVars
    /\ UNCHANGED apiVars
    /\ UNCHANGED scoreVars

\* wrapper: return f(*args, **kwargs), the storage answers
AttemptReturns ==
    /\ store_pc = "loop"
    /\ InRange(attempt, max_retries)
    /\ attempts' = Append(attempts, "return")
    /\ IF call.method = "cache_set"
       THEN /\ storage' = [storage EXCEPT ![call.key] = call.value]
            /\ answer' = Return("True")
       ELSE /\ answer' = Return(storage[call.key])
            /\ UNCHANGED storage
    /\ store_pc' = "idle"
    /\ UNCHANGED <<call, attempt, calls>>
    /\ UNCHANGED logVars
    /\ UNCHANGED apiVars
    /\ UNCHANGED scoreVars

\* wrapper: f(*args, **kwargs) raises ConnectionError, which is caught
AttemptRaisesConnectionError ==
    /\ store_pc = "loop"
    /\ InRange(attempt, max_retries)
    /\ attempts' = Append(attempts, "ConnectionError")
    /\ store_pc' = "sleep"
    /\ UNCHANGED <<storage, call, attempt, answer, calls>>
    /\ UNCHANGED logVars
    /\ UNCHANGED apiVars
    /\ UNCHANGED scoreVars

\* wrapper: f(*args, **kwargs) raises another exception, which is not caught
AttemptRaisesOther ==
    /\ store_pc = "loop"
    /\ InRange(attempt, max_retries)
    /\ attempts' = Append(attempts, "Exception")
    /\ answer' = Raise("Exception")
    /\ store_pc' = "idle"
    /\ UNCHANGED <<storage, call, attempt, calls>>
    /\ UNCHANGED logVars
    /\ UNCHANGED apiVars
    /\ UNCHANGED scoreVars

\* wrapper: time.sleep(1) and the next turn of the loop
Sleep ==
    /\ store_pc = "sleep"
    /\ attempt' = attempt + 1
    /\ store_pc' = "loop"
    /\ UNCHANGED <<storage, call, attempts, answer, calls>>
    /\ UNCHANGED logVars
    /\ UNCHANGED apiVars
    /\ UNCHANGED scoreVars

\* wrapper: the loop is over; if not silent: raise ConnectionError
AfterLoop ==
    /\ store_pc = "loop"
    /\ ~InRange(attempt, max_retries)
    /\ answer' = IF Silent(call.method) THEN Return("None") ELSE Raise("ConnectionError")
    /\ store_pc' = "idle"
    /\ UNCHANGED <<storage, call, attempt, attempts, calls>>
    /\ UNCHANGED logVars
    /\ UNCHANGED apiVars
    /\ UNCHANGED scoreVars

NextStore ==
    \/ Call
    \/ AttemptReturns
    \/ AttemptRaisesConnectionError
    \/ AttemptRaisesOther
    \/ Sleep
    \/ AfterLoop

SpecStore == InitStore /\ [][NextStore]_vars

\* the wrapper is sequential code: a started attempt ends (the connection
\* has a timeout), time.sleep(1) ends, and the statement after the loop runs
FairStore ==
    /\ WF_vars(AttemptReturns \/ AttemptRaisesConnectionError \/ AttemptRaisesOther)
    /\ WF_vars(Sleep)
    /\ WF_vars(AfterLoop)

SpecStoreFair == InitStore /\ [][NextStore]_vars /\ FairStore

(***************************************************************************)
(* The calls of get_score over the store.                                  *)
(***************************************************************************)
InitScore ==
    /\ NoInputs
    /\ IdleLocals
    /\ storage = [k \in ScoreKeys |-> "None"]
    /\ StoreIdle
    /\ ScoreIdle
    /\ FieldIdle
    /\ HttpIdle

\* the wrapper of a store method starts its loop
StartCall(method, key, value) ==
    /\ call' = [method |-> method, key |-> key, value |-> value]
    /\ calls' = calls + 1
    /\ attempt' = 0
    /\ attempts' = <<>>
    /\ answer' = NoResult
    /\ store_pc' = "loop"
    /\ UNCHANGED storage

\* get_score(store, phone, email, ...): the key, then store.cache_get(key)
GetScore ==
    /\ score_pc = "idle"
    /\ store_pc = "idle"
    /\ score_calls < MaxScoreCalls
    /\ \E args \in ScoreArguments :
          /\ score_args' = args
          /\ StartCall("cache_get", ScoreKey(args), "None")
    /\ score_calls' = score_calls + 1
    /\ score' = 0
    /\ score_attempts' = <<>>
    /\ score_answer' = NoScore
    /\ score_pc' = "cache_get"
    /\ UNCHANGED logVars
    /\ UNCHANGED apiVars

\* score = store.cache_get(key) or 0; if score: return float(score)
ScoreCached ==
    /\ score_pc = "cache_get"
    /\ store_pc = "idle"
    /\ answer.kind = "return"
    /\ answer.value \notin {"None", ""}
    /\ score_answer' = ReturnScore(FloatOfScore(answer.value))
    /\ score_attempts' = attempts
    /\ score_pc' = "idle"
    /\ UNCHANGED <<score_args, score, score_calls>>
    /\ UNCHANGED storeVars
    /\ UNCHANGED logVars
    /\ UNCHANGED apiVars

\* score = 0; the four additions; store.cache_set(key, score, 60 * 60)
ScoreComputed ==
    /\ score_pc = "cache_get"
    /\ store_pc = "idle"
    /\ answer.kind = "return"
    /\ answer.value \in {"None", ""}
    /\ score' = ComputedScore(score_args)
    /\ score_attempts' = attempts
    /\ StartCall("cache_set", ScoreKey(score_args), StrOfScore(score'))
    /\ score_pc' = "cache_set"
    /\ UNCHANGED <<score_args, score_answer, score_calls>>
    /\ UNCHANGED logVars
    /\ UNCHANGED apiVars

\* return score
ScoreReturned ==
    /\ score_pc = "cache_set"
    /\ store_pc = "idle"
    /\ answer.kind = "return"
    /\ score_answer' = ReturnScore(score)
    /\ score_pc' = "idle"
    /\ UNCHANGED <<score_args, score, score_attempts, score_calls>>
    /\ UNCHANGED storeVars
    /\ UNCHANGED logVars
    /\ UNCHANGED apiVars

\* what store.cache_get or store.cache_set raised leaves get_score
ScoreRaised ==
    /\ score_pc \in {"cache_get", "cache_set"}
    /\ store_pc = "idle"
    /\ answer.kind = "raise"
    /\ score_answer' = RaiseFromScore
    /\ score_pc' = "idle"
    /\ UNCHANGED <<score_args, score, score_attempts, score_calls>>
    /\ UNCHANGED storeVars
    /\ UNCHANGED logVars
    /\ UNCHANGED apiVars

NextScore ==
    \/ GetScore
    \/ AttemptReturns
    \/ AttemptRaisesConnectionError
    \/ AttemptRaisesOther
    \/ Sleep
    \/ AfterLoop
    \/ ScoreCached
    \/ ScoreComputed
    \/ ScoreReturned
    \/ ScoreRaised

SpecScore == InitScore /\ [][NextScore]_vars

(***************************************************************************)
(* A field of any class is asked to validate a value.                      *)
(***************************************************************************)
InitFields ==
    /\ NoInputs
    /\ IdleLocals
    /\ StoreInit
    /\ ScoreIdle
    /\ field \in Fields
    /\ field_value \in FieldValues
    /\ field_now \in Nows
    /\ field_pc = "idle"
    /\ validated = NoException
    /\ checked = NotChecked
    /\ HttpIdle

\* field.validate(value)
Validate ==
    /\ field_pc = "idle"
    /\ validated' = validate(field, field_value, field_now)
    /\ field_pc' = "validated"
    /\ UNCHANGED <<field, field_value, field_now, checked>>
    /\ UNCHANGED <<logVars, storeVars, scoreVars, httpVars>>

\* field.is_valid(value)
IsValid ==
    /\ field_pc = "validated"
    /\ checked' = is_valid(field, field_value, field_now)
    /\ field_pc' = "checked"
    /\ UNCHANGED <<field, field_value, field_now, validated>>
    /\ UNCHANGED <<logVars, storeVars, scoreVars, httpVars>>

NextFields == Validate \/ IsValid

SpecFields == InitFields /\ [][NextFields]_vars

(***************************************************************************)
(* The service: do_POST receives a request, routes it to method_handler,   *)
(* which may ask the store through get_score or get_interests, and sends   *)
(* one response.                                                           *)
(***************************************************************************)
\* the arguments get_response hands to get_score
ScoreArgumentsOf(args) ==
    Arguments(args.phone, args.email, args.birthday, args.gender,
              args.first_name, args.last_name)

\* "i:%s" % cid
InterestsKey(cid) == "i:" \o cid

\* what the store may hold for the interests of a client: nothing, a JSON
\* list, or a text that is no JSON
InterestsTexts == {"None", "[\"books\", \"hi-tech\"]", "books"}

\* json.loads(r) raises for a text that is no JSON
JsonLoadsRaises(text) == text \notin {"[\"books\", \"hi-tech\"]"}

ApiKeys ==
    {ScoreKey(ScoreArgumentsOf(request.args)) : request \in Requests}
    \cup {InterestsKey(cid) : cid \in {"1", "2"}}

\* the arguments of a request whose score the cache may already hold
CachedArguments ==
    Arguments(PyStr("71234567890"), PyStr("a@b"), PyNone, PyNone, PyNone, PyNone)

\* what the cache may hold for them: nothing, or the score cache_set stored
CachedTexts == {"None", StrOfScore(ComputedScore(CachedArguments))}

InitApi ==
    /\ NoInputs
    /\ IdleLocals
    /\ \E text \in InterestsTexts, cached \in CachedTexts :
          storage = [k \in ApiKeys |->
                        IF k = InterestsKey("1") THEN text
                        ELSE IF k = ScoreKey(CachedArguments) THEN cached
                        ELSE "None"]
    /\ StoreIdle
    /\ ScoreIdle
    /\ field = Field("char", FALSE, TRUE)
    /\ field_value = PyNone
    /\ field_now = Today
    /\ field_pc = "idle"
    /\ validated = NoException
    /\ checked = NotChecked
    /\ HttpIdle

\* do_POST up to the call of the routed handler
ReadRequest ==
    /\ http_pc = "idle"
    /\ store_pc = "idle"
    /\ score_pc = "idle"
    /\ Len(responses) < MaxRequests
    /\ \E request \in Requests :
          /\ http_request' = request
          /\ IF ~request.json
             THEN code' = BAD_REQUEST /\ http_pc' = "send"
             ELSE IF ~Truthy(request.body)
             THEN code' = OK /\ http_pc' = "send"
             ELSE IF Strip(request.path) \notin Router
             THEN code' = NOT_FOUND /\ http_pc' = "send"
             ELSE code' = OK /\ http_pc' = "method_handler"
    /\ handler_answer' = NoAnswer
    /\ cids_left' = <<>>
    /\ UNCHANGED responses
    /\ UNCHANGED <<logVars, storeVars, scoreVars, fieldVars>>

\* method_handler returns or raises before handler.get_response
MethodHandlerEnds ==
    /\ http_pc = "method_handler"
    /\ method_handler(http_request, field_now).kind \in {"return", "raise"}
    /\ handler_answer' = method_handler(http_request, field_now)
    /\ http_pc' = "handled"
    /\ UNCHANGED <<http_request, code, cids_left, responses>>
    /\ UNCHANGED <<logVars, storeVars, scoreVars, fieldVars>>

\* OnlineScoreRequest.get_response calls get_score
MethodHandlerGetScore ==
    /\ http_pc = "method_handler"
    /\ method_handler(http_request, field_now).what = "get_score"
    /\ score_args' = ScoreArgumentsOf(http_request.args)
    /\ StartCall("cache_get", ScoreKey(score_args'), "None")
    /\ score_calls' = score_calls + 1
    /\ score' = 0
    /\ score_attempts' = <<>>
    /\ score_answer' = NoScore
    /\ score_pc' = "cache_get"
    /\ http_pc' = "get_score"
    /\ UNCHANGED <<http_request, code, handler_answer, cids_left, responses>>
    /\ UNCHANGED <<logVars, fieldVars>>

\* get_score has returned or raised: method_handler returns OK or raises
GetScoreEnds ==
    /\ http_pc = "get_score"
    /\ score_pc = "idle"
    /\ handler_answer' =
          IF score_answer.kind = "raise"
          THEN [kind |-> "raise", code |-> 0, what |-> answer.value]
          ELSE [kind |-> "return", code |-> OK, what |-> "score"]
    /\ http_pc' = "handled"
    /\ UNCHANGED <<http_request, code, cids_left, responses>>
    /\ UNCHANGED <<logVars, storeVars, scoreVars, fieldVars>>

\* ClientsInterestsRequest.get_response starts its loop over client_ids
MethodHandlerGetInterests ==
    /\ http_pc = "method_handler"
    /\ method_handler(http_request, field_now).what = "get_interests"
    /\ cids_left' = http_request.cids
    /\ http_pc' = "get_interests"
    /\ UNCHANGED <<http_request, code, handler_answer, responses>>
    /\ UNCHANGED <<logVars, storeVars, scoreVars, fieldVars>>

\* get_interests(store, cid): r = store.get("i:%s" % cid)
GetInterests ==
    /\ http_pc = "get_interests"
    /\ cids_left # <<>>
    /\ StartCall("get", InterestsKey(Head(cids_left)), "None")
    /\ http_pc' = "store_get"
    /\ UNCHANGED <<http_request, code, handler_answer, cids_left, responses>>
    /\ UNCHANGED <<logVars, scoreVars, fieldVars>>

\* return json.loads(r) if r else []; what store.get or json.loads raises
\* leaves method_handler
GetInterestsEnds ==
    /\ http_pc = "store_get"
    /\ store_pc = "idle"
    /\ IF answer.kind = "raise"
       THEN /\ handler_answer' = [kind |-> "raise", code |-> 0, what |-> answer.value]
            /\ http_pc' = "handled"
            /\ UNCHANGED cids_left
       ELSE IF answer.value \notin {"None", ""} /\ JsonLoadsRaises(answer.value)
       THEN /\ handler_answer' = [kind |-> "raise", code |-> 0, what |-> "JSONDecodeError"]
            /\ http_pc' = "handled"
            /\ UNCHANGED cids_left
       ELSE /\ cids_left' = Tail(cids_left)
            /\ http_pc' = "get_interests"
            /\ UNCHANGED handler_answer
    /\ UNCHANGED <<http_request, code, responses>>
    /\ UNCHANGED <<logVars, storeVars, scoreVars, fieldVars>>

\* the loop over client_ids is over: method_handler returns OK
GetInterestsReturns ==
    /\ http_pc = "get_interests"
    /\ cids_left = <<>>
    /\ handler_answer' = [kind |-> "return", code |-> OK, what |-> "interests"]
    /\ http_pc' = "handled"
    /\ UNCHANGED <<http_request, code, cids_left, responses>>
    /\ UNCHANGED <<logVars, storeVars, scoreVars, fieldVars>>

\* the code do_POST sends
SentCode ==
    IF http_pc = "send" THEN code
    ELSE IF handler_answer.kind = "raise" THEN INTERNAL_ERROR
    ELSE handler_answer.code

\* response, code = self.router[path](...), except Exception: code =
\* INTERNAL_ERROR; self.send_response(code)
SendResponse ==
    /\ http_pc \in {"send", "handled"}
    /\ code' = SentCode
    /\ responses' = Append(responses,
                           [code    |-> SentCode,
                            json    |-> http_request.json,
                            routed  |-> Strip(http_request.path) \in Router,
                            handler |-> handler_answer.kind,
                            handler_code |-> handler_answer.code])
    /\ http_request' = NoRequest
    /\ handler_answer' = NoAnswer
    /\ cids_left' = <<>>
    /\ http_pc' = "idle"
    /\ UNCHANGED <<logVars, storeVars, scoreVars, fieldVars>>

NextApi ==
    \/ ReadRequest
    \/ MethodHandlerEnds
    \/ MethodHandlerGetScore
    \/ MethodHandlerGetInterests
    \/ AttemptReturns
    \/ AttemptRaisesConnectionError
    \/ AttemptRaisesOther
    \/ Sleep
    \/ AfterLoop
    \/ ScoreCached
    \/ ScoreComputed
    \/ ScoreReturned
    \/ ScoreRaised
    \/ GetScoreEnds
    \/ GetInterests
    \/ GetInterestsEnds
    \/ GetInterestsReturns
    \/ SendResponse

SpecApi == InitApi /\ [][NextApi]_vars

(***************************************************************************)
(* Reference notions used to state the properties.                         *)
(***************************************************************************)
Running == {"parse_log", "enrich", "rank", "render_read", "render_open",
            "render_write"}

PastGate == Running \ {"parse_log"}

Located == pc \notin {"idle", "find_last_log_file"}

\* the invocations that ended by themselves
Ended == {i \in 1..Len(history) : history[i].outcome # "KILLED"}

\* the entries of the directory that carry the log name pattern
PatternEntries == {f \in logDir : f.stem = LogStem /\ f.suffix \in {"", ".gz"}}

DateNumber(s) ==
    10000000 * s[1] + 1000000 * s[2] + 100000 * s[3] + 10000 * s[4]
        + 1000 * s[5] + 100 * s[6] + 10 * s[7] + s[8]

Greatest(f) == \A g \in PatternEntries : DateNumber(g.date) <= DateNumber(f.date)

\* the digit strings of the model that are calendar dates
CalendarDates == {D20170628, D20170629}

ReportOf(file_name) == ReportFileName(ToDate(file_name.date))

Unparsed(log) == Cardinality({i \in 1..Len(log) : ~parsed_line(log[i]).match})

\* the error ratio of the log strictly exceeds limit (in thousandths)
RatioExceeds(log, limit) ==
    Len(log) > 0 /\ Unparsed(log) * 1000 > limit * Len(log)

LimitExceeded ==
    ~config.ERRORS_LIMIT.none /\ RatioExceeds(logLines, config.ERRORS_LIMIT.value)

(***************************************************************************)
(* C1.  When the report for the date of the located log already exists,    *)
(* main ends in UP_TO_DATE: it reads no line of the log (so it cannot      *)
(* raise on the errors limit) and leaves every report file as it was.      *)
(***************************************************************************)
UpToDateIsNoOp ==
    /\ \A i \in Ended :
          LET h == history[i]
          IN  (/\ h.selected # NoName
               /\ h.selected.date \in CalendarDates
               /\ ReportOf(h.selected) \in DOMAIN h.before)
              => (h.outcome = "UP_TO_DATE" /\ h.after = h.before)
    /\ (/\ Located
        /\ last_log_file_name.date \in CalendarDates
        /\ ReportOf(last_log_file_name) \in DOMAIN reports_before)
       => (pc \notin Running /\ total = 0 /\ reports = reports_before)

\* an UP_TO_DATE run over a log that exceeds the configured limit
UpToDateWitness ==
    /\ Len(history) >= 1
    /\ history[1].outcome = "UP_TO_DATE"
    /\ history[1].after = history[1].before
    /\ LimitExceeded

(***************************************************************************)
(* C2.  With a log whose every line parses, the template present and no    *)
(* report for the log's date, the first invocation creates the report and  *)
(* ends in DONE, the second ends in UP_TO_DATE and the report directory    *)
(* after it equals the one after the first.                                *)
(***************************************************************************)
TwoRunsPrecondition ==
    /\ logDirExists
    /\ PatternEntries # {}
    /\ \A f \in PatternEntries : Greatest(f) => f.date \in CalendarDates
    /\ Unparsed(logLines) = 0
    /\ reportDirExists
    /\ templateFile.exists
    /\ \A f \in PatternEntries :
          Greatest(f) => ReportOf(f) \notin DOMAIN history[1].before

SecondRunIsNoOp ==
    (1 \in Ended /\ TwoRunsPrecondition)
    => /\ history[1].outcome = "DONE"
       /\ ReportOf(history[1].selected) \in DOMAIN history[1].after
       /\ (2 \in Ended
           => /\ history[2].outcome = "UP_TO_DATE"
              /\ history[2].after = history[1].after)

(***************************************************************************)
(* C3.  The report path never holds empty or truncated content: a report   *)
(* file is either one that was there before, or a complete rendering.      *)
(***************************************************************************)
ReportNeverTruncated ==
    \A n \in DOMAIN reports :
        \/ (n \in DOMAIN reports_before /\ reports[n] = reports_before[n])
        \/ (reports[n].text = templateFile.text /\ templateFile.exists)

(***************************************************************************)
(* C4.  As claimed: a configured errors limit that the log's error ratio   *)
(* strictly exceeds makes main raise, and no report file is created or     *)
(* modified.                                                               *)
(***************************************************************************)
ExceededLimitAlwaysRaises ==
    \A i \in Ended :
        (logDirExists /\ PatternEntries # {} /\ LimitExceeded)
        => (history[i].outcome = "RAISED" /\ history[i].after = history[i].before)

(***************************************************************************)
(* C4, amended.  With the limit exceeded no report file is created or      *)
(* modified; main raises, with 'Errors limit exceed' when the log's date   *)
(* is valid, unless it returns early because the report directory is       *)
(* missing or already holds the report for the log's date.                 *)
(***************************************************************************)
ExceededLimitRaisesUnlessEarlyReturn ==
    \A i \in Ended :
        LET h     == history[i]
            valid == h.selected.date \in CalendarDates
            early == valid /\ (~reportDirExists
                                 \/ ReportOf(h.selected) \in DOMAIN h.before)
        IN  (logDirExists /\ PatternEntries # {} /\ LimitExceeded)
            => /\ h.after = h.before
               /\ early => h.outcome \in {"NO_REPORT_DIR", "UP_TO_DATE"}
               /\ ~early => h.outcome = "RAISED"
               /\ (valid /\ ~early) => h.error = "Errors limit exceed"

ExceededLimitWitness ==
    /\ Len(history) >= 1
    /\ history[1].outcome = "RAISED"
    /\ history[1].error = "Errors limit exceed"
    /\ LimitExceeded

(***************************************************************************)
(* C5.  The gate compares strictly: with a limit configured and a          *)
(* non-empty log, the run fails on the gate exactly when                   *)
(* (total - parsed) / total > limit, total and parsed being the counts of  *)
(* the whole log.  With limit 0.5 a log of which half parses passes.       *)
(***************************************************************************)
GateIsStrict ==
    /\ pc \in PastGate
       => /\ total = Len(logLines)
          /\ processed = Len(logLines) - Unparsed(logLines)
          /\ ~LimitExceeded
    /\ \A i \in 1..Len(history) :
          history[i].error = "Errors limit exceed" => LimitExceeded

\* limit 0.5, two lines of which one parses: the gate is passed
GateBoundaryWitness ==
    /\ pc = "enrich"
    /\ config.ERRORS_LIMIT = Some(500)
    /\ Len(logLines) = 2
    /\ Unparsed(logLines) = 1

(***************************************************************************)
(* C6.  As claimed: when the supplied configuration has no errors_limit,   *)
(* no run fails on the error ratio.                                        *)
(***************************************************************************)
AbsentLimitDisablesGate ==
    external_config = <<>>
    => \A i \in 1..Len(history) : history[i].error # "Errors limit exceed"

(***************************************************************************)
(* C6, amended.  The gate is disabled when the supplied configuration      *)
(* sets errors_limit to null: then no run fails on the error ratio,        *)
(* whatever the share of unparseable lines.  When the key is absent the    *)
(* default of DEFAULT_CONFIG, 0.64, is the limit in force.                 *)
(***************************************************************************)
NullLimitDisablesGate ==
    /\ ("ERRORS_LIMIT" \in DOMAIN external_config
        /\ external_config["ERRORS_LIMIT"].none)
       => /\ \A i \in 1..Len(history) : history[i].error # "Errors limit exceed"
          /\ (pc # "idle" => config.ERRORS_LIMIT.none)
    /\ external_config = <<>>
       => /\ pc # "idle" => config.ERRORS_LIMIT = Some(640)
          /\ pc \in PastGate => ~RatioExceeds(logLines, 640)

\* no limit, no line parses, and the run still ends in DONE
NullLimitWitness ==
    /\ Len(history) >= 1
    /\ history[1].outcome = "DONE"
    /\ "ERRORS_LIMIT" \in DOMAIN external_config
    /\ external_config["ERRORS_LIMIT"].none
    /\ Len(logLines) > 0
    /\ Unparsed(logLines) = Len(logLines)

(***************************************************************************)
(* C7.  The locator selects an entry that carries the name pattern and     *)
(* whose date is the greatest among such entries; other entries are        *)
(* ignored.  A run that ends in DONE has created exactly the report named  *)
(* after the selected log's date and changed no other report.              *)
(***************************************************************************)
LocatorSelectsGreatest ==
    /\ Located
       => (last_log_file_name \in PatternEntries /\ Greatest(last_log_file_name))
    /\ \A i \in Ended :
          LET h == history[i]
          IN  h.outcome = "DONE"
              => /\ h.selected \in PatternEntries
                 /\ Greatest(h.selected)
                 /\ ReportOf(h.selected) \notin DOMAIN h.before
                 /\ DOMAIN h.after = DOMAIN h.before \cup {ReportOf(h.selected)}
                 /\ \A n \in DOMAIN h.before : h.after[n] = h.before[n]

\* a report written although a .bz2 file carries a later date
LaterBz2Witness ==
    /\ Len(history) >= 1
    /\ history[1].outcome = "DONE"
    /\ \E f \in logDir :
          /\ f.suffix = ".bz2"
          /\ DateNumber(f.date) > DateNumber(history[1].selected.date)

(***************************************************************************)
(* C8.  As claimed: an entry whose digits are no calendar date is never    *)
(* the selected log and never makes the run fail.                          *)
(***************************************************************************)
InvalidDateIsSkipped ==
    /\ Located => last_log_file_name.date \in CalendarDates
    /\ \A i \in 1..Len(history) : history[i].error # "Not correct time format"

(***************************************************************************)
(* C8, amended.  An entry whose digits are no calendar date is not         *)
(* skipped.  If its digits are the greatest among the entries carrying the *)
(* pattern it is the selected log and main raises 'Not correct time        *)
(* format' without creating a report; otherwise it is never selected and   *)
(* the run goes on with the greatest entry.                                *)
(***************************************************************************)
InvalidDateIsFatalWhenGreatest ==
    /\ Located => Greatest(last_log_file_name)
    /\ \A i \in Ended :
          LET h == history[i]
          IN  (logDirExists /\ PatternEntries # {})
              => /\ Greatest(h.selected)
                 /\ h.selected.date \notin CalendarDates
                    => /\ h.outcome = "RAISED"
                       /\ h.error = "Not correct time format"
                       /\ h.after = h.before
                 /\ h.selected.date \in CalendarDates
                    => h.error # "Not correct time format"

\* the directory holds a valid log, yet the run fails on the invalid date
InvalidDateWitness ==
    /\ Len(history) >= 1
    /\ history[1].error = "Not correct time format"
    /\ \E f \in PatternEntries : f.date \in CalendarDates

(***************************************************************************)
(* C9.  A log directory that is missing, or holds no entry carrying the    *)
(* pattern, ends the run in NO_LOG_FOUND: main returns and no report is    *)
(* created.                                                                *)
(***************************************************************************)
NoLogIsSoftTerminal ==
    \A i \in Ended :
        (~logDirExists \/ PatternEntries = {})
        => (history[i].outcome = "NO_LOG_FOUND"
            /\ history[i].after = history[i].before)

(***************************************************************************)
(* C10.  When the plain and the .gz file of the greatest date are both     *)
(* present, the selected file is the same for every order in which the     *)
(* directory is enumerated.                                                *)
(***************************************************************************)
TieBreakIgnoresListingOrder ==
    (/\ Located
     /\ \E f, g \in PatternEntries :
           Greatest(f) /\ g.date = f.date /\ g.suffix # f.suffix)
    => \A listing \in Listings(logDir) :
           find_last_log_file(listing) = last_log_file_name

(***************************************************************************)
(* C11.  The template is looked for before any line of the log is read,    *)
(* and a missing template ends the run softly: nothing is aggregated and   *)
(* main does not raise.                                                    *)
(***************************************************************************)
TemplateCheckedBeforeAggregation ==
    /\ (pc \in Running /\ total > 0) => templateFile.exists
    /\ \A i \in 1..Len(history) :
          history[i].error # "FileNotFoundError: report.html"

(***************************************************************************)
(* C12.  process_line raises for no line: no run ends with the ValueError  *)
(* of float(), the line about to be read does not raise, and every line    *)
(* read so far was counted once, as parsed or as unparsed.                 *)
(***************************************************************************)
ProcessLineNeverRaises ==
    /\ \A i \in 1..Len(history) : history[i].error # "ValueError"
    /\ pc = "parse_log" =>
          /\ pos < Len(logLines) => ~parsed_line(logLines[pos + 1]).raised
          /\ total = pos
          /\ processed = Cardinality({i \in 1..pos : parsed_line(logLines[i]).match})
          /\ total - processed =
                Cardinality({i \in 1..pos : parsed_line(logLines[i]) = NoMatch})

\* a log with a parsed and an unparsed line has been read to its end
ProcessLineBothKindsRead ==
    /\ pc = "parse_log"
    /\ pos = Len(logLines)
    /\ 0 < processed
    /\ processed < total

(***************************************************************************)
(* C13.  A line that deviates from the log format (a quote missing or too  *)
(* many, no request time, a request time followed or preceded by other     *)
(* characters) is not parsed.                                              *)
(***************************************************************************)
DeviatingLineIsNoMatch ==
    (pc = "parse_log" /\ pos = 1 /\ logLines[1] \in MalformedLines) => processed = 0

(***************************************************************************)
(* C14.  A well-formed line yields its own path and the value of its own   *)
(* request time, whatever the values of the other fields are.              *)
(***************************************************************************)
IgnoredFieldsDoNotMatter ==
    (pc = "parse_log" /\ pos = 1 /\ Len(logLines) = 1)
    => \A p \in Samples, changed \in Changes :
          logLines[1] = LineText(WellFormedFields(p.path, p.tail, changed))
          => /\ processed = 1
             /\ statistics = <<[url |-> p.path, data |-> <<p.value>>]>>

\* the line whose ignored fields all differ from the test line's was read
AllIgnoredFieldsChangedRead ==
    /\ pc = "parse_log"
    /\ pos = 1
    /\ logLines = <<LineText(WellFormedFields(Api2, <<"1", ".", "4">>, IgnoredFields))>>
    /\ processed = 1

(***************************************************************************)
(* The summary of a log computed from its lines, path by path.             *)
(***************************************************************************)
ParsedIndexes(log) == {i \in 1..Len(log) : parsed_line(log[i]).match}

PathsOf(log) == {parsed_line(log[i]).url : i \in ParsedIndexes(log)}

IndexesOf(log, url) == {i \in ParsedIndexes(log) : parsed_line(log[i]).url = url}

TimeAt(log, i) == parsed_line(log[i]).request_time

RECURSIVE TotalTime(_, _)
TotalTime(log, indexes) ==
    IF indexes = {} THEN 0
    ELSE LET i == CHOOSE j \in indexes : TRUE
         IN  TimeAt(log, i) + TotalTime(log, indexes \ {i})

\* the integer nearest to n / d, the even one when two are equally near
Nearest(n, d) ==
    CHOOSE q \in {n \div d, n \div d + 1} :
        LET away == IF q * d >= n THEN q * d - n ELSE n - q * d
        IN  2 * away < d \/ (2 * away = d /\ q % 2 = 0)

\* the k-th smallest of the times at indexes
KthSmallest(log, indexes, k) ==
    CHOOSE v \in {TimeAt(log, i) : i \in indexes} :
        /\ Cardinality({i \in indexes : TimeAt(log, i) < v}) < k
        /\ Cardinality({i \in indexes : TimeAt(log, i) <= v}) >= k

Smallest(log, indexes) == KthSmallest(log, indexes, 1)

Largest(log, indexes) == KthSmallest(log, indexes, Cardinality(indexes))

\* the middle value, or the mean of the two middle values
MiddleValue(log, indexes) ==
    LET n == Cardinality(indexes)
    IN  IF n % 2 = 1 THEN KthSmallest(log, indexes, (n + 1) \div 2)
        ELSE Nearest(KthSmallest(log, indexes, n \div 2)
                     + KthSmallest(log, indexes, n \div 2 + 1), 2)

\* counts as they are, times in thousandths, percentages in thousandths of 1%
Summary(log, url) ==
    LET own == IndexesOf(log, url)
        all == ParsedIndexes(log)
    IN  [url        |-> url,
         count      |-> Cardinality(own),
         count_perc |-> Nearest(100000 * Cardinality(own), Cardinality(all)),
         time_sum   |-> TotalTime(log, own),
         time_perc  |-> Nearest(100000 * TotalTime(log, own), TotalTime(log, all)),
         time_avg   |-> Nearest(TotalTime(log, own), Cardinality(own)),
         time_max   |-> Largest(log, own),
         time_med   |-> MiddleValue(log, own)]

(***************************************************************************)
(* C15.  After the enrichment there is exactly one entry per path of the   *)
(* parsed lines, and it is the summary of the path's request times: count, *)
(* share of the parsed lines, sum, share of the total time, mean, maximum  *)
(* and median, rounded to 3 decimals.                                      *)
(***************************************************************************)
EnrichedEqualsSummary ==
    pc = "rank" =>
        /\ Len(enriched_statistics) = Cardinality(PathsOf(logLines))
        /\ \A i \in 1..Len(enriched_statistics) :
              /\ enriched_statistics[i].url \in PathsOf(logLines)
              /\ enriched_statistics[i] = Summary(logLines, enriched_statistics[i].url)
              /\ \A j \in 1..Len(enriched_statistics) :
                    enriched_statistics[j].url = enriched_statistics[i].url => j = i

\* test_log_1 has been enriched to test_answer_1
TestAnswer1Enriched ==
    /\ pc = "rank"
    /\ logLines = <<LineApi1, LineApi1Slow, LineApi2>>
    /\ enriched_statistics =
          << [url |-> Api1, count |-> 2, count_perc |-> 66667, time_sum |-> 2400,
              time_perc |-> 54545, time_avg |-> 1200, time_max |-> 1400,
              time_med |-> 1200],
             [url |-> Api2, count |-> 1, count_perc |-> 33333, time_sum |-> 2000,
              time_perc |-> 45455, time_avg |-> 2000, time_max |-> 2000,
              time_med |-> 2000] >>

RECURSIVE FieldSum(_, _)
FieldSum(entries, name) ==
    IF entries = <<>> THEN 0
    ELSE entries[1][name] + FieldSum(Tail(entries), name)

Distance(a, b) == IF a >= b THEN a - b ELSE b - a

(***************************************************************************)
(* C16.  For a log with a parsed line and a total time that is not zero    *)
(* the count_perc of the enriched entries add up to 100, and so do their   *)
(* time_perc, each within 0.01 times the number of entries.                *)
(***************************************************************************)
PercentagesAddUp ==
    (/\ pc = "rank"
     /\ ParsedIndexes(logLines) # {}
     /\ TotalTime(logLines, ParsedIndexes(logLines)) > 0)
    => /\ Distance(FieldSum(enriched_statistics, "count_perc"), 100000)
            <= 10 * Len(enriched_statistics)
       /\ Distance(FieldSum(enriched_statistics, "time_perc"), 100000)
            <= 10 * Len(enriched_statistics)

\* three paths with a third of the lines each: the shares add up to 99.999
ThreeThirdsEnriched ==
    /\ pc = "rank"
    /\ Len(enriched_statistics) = 3
    /\ FieldSum(enriched_statistics, "count_perc") = 99999

RankedAndTruncated ==
    pc = "render_read" =>
        LET n    == Len(enriched_statistics)
            size == config.REPORT_SIZE
            \* the place of entry i in the stable order by time_sum
            place(i) ==
                Cardinality({j \in 1..n :
                    \/ enriched_statistics[j].time_sum > enriched_statistics[i].time_sum
                    \/ /\ enriched_statistics[j].time_sum = enriched_statistics[i].time_sum
                       /\ j <= i})
        IN  /\ Len(top_statistics) = IF size < 0 THEN 0 ELSE IF size < n THEN size ELSE n
            /\ \A i \in 1..n :
                  place(i) <= Len(top_statistics)
                  => top_statistics[place(i)] = enriched_statistics[i]

(***************************************************************************)
(* C19.  No run divides by zero, whatever the log holds: no line, no       *)
(* parseable line, or only request times of 0.                             *)
(***************************************************************************)
NoDivisionByZero ==
    \A i \in 1..Len(history) : history[i].error # "ZeroDivisionError"

(***************************************************************************)
(* C20.  A call of Store.get whose every attempt on the storage raised     *)
(* ConnectionError ends by raising ConnectionError, and a call of          *)
(* Store.get raises ConnectionError only after exactly max_retries (3)     *)
(* attempts, all of them failed.                                           *)
(***************************************************************************)
GetRaisesAfterMaxRetries ==
    (store_pc = "idle" /\ call.method = "get" /\ answer # NoResult)
    => /\ (\A i \in 1..Len(attempts) : attempts[i] = "ConnectionError")
          => answer = Raise("ConnectionError")
       /\ answer = Raise("ConnectionError")
          => /\ Len(attempts) = 3
             /\ \A i \in 1..3 : attempts[i] = "ConnectionError"

\* Store.get has raised ConnectionError
GetRaisedConnectionError ==
    /\ store_pc = "idle"
    /\ call.method = "get"
    /\ answer = Raise("ConnectionError")
    /\ attempts = <<"ConnectionError", "ConnectionError", "ConnectionError">>

(***************************************************************************)
(* The score of a call's own arguments: 1.5 for a phone, 1.5 for an email, *)
(* 1.5 for a birthday with a gender, 0.5 for a first name with a last      *)
(* name, in tenths.                                                        *)
(***************************************************************************)
Points(given, tenths) == IF given THEN tenths ELSE 0

ExpectedScore(args) ==
    Points(Truthy(args.phone), 15)
    + Points(Truthy(args.email), 15)
    + Points(Truthy(args.birthday) /\ Truthy(args.gender), 15)
    + Points(Truthy(args.first_name) /\ Truthy(args.last_name), 5)

AllConnectionErrors(outcomes) ==
    \A i \in 1..Len(outcomes) : outcomes[i] = "ConnectionError"

(***************************************************************************)
(* C21.  A call of Store.cache_get or Store.cache_set never ends by        *)
(* raising ConnectionError; when every attempt on the storage raised       *)
(* ConnectionError it has made 3 attempts and returns None.  A call of     *)
(* get_score during which every attempt on the storage raised              *)
(* ConnectionError returns the score computed from its arguments.          *)
(***************************************************************************)
CacheNeverRaisesConnectionError ==
    /\ (store_pc = "idle" /\ call.method \in {"cache_get", "cache_set"} /\ answer # NoResult)
       => /\ answer # Raise("ConnectionError")
          /\ AllConnectionErrors(attempts)
             => (answer = Return("None") /\ Len(attempts) = 3)
    /\ (/\ score_pc = "idle"
        /\ score_answer # NoScore
        /\ AllConnectionErrors(score_attempts \o attempts))
       => /\ score_answer = ReturnScore(ExpectedScore(score_args))
          /\ call.method = "cache_set"
          /\ Len(score_attempts) = 3
          /\ Len(attempts) = 3

\* get_score has returned 3.0 although no attempt of cache_get and of
\* cache_set reached the storage
ScoreComputedWithoutCache ==
    /\ score_pc = "idle"
    /\ score_answer = ReturnScore(30)
    /\ call.method = "cache_set"
    /\ answer = Return("None")
    /\ score_attempts = <<"ConnectionError", "ConnectionError", "ConnectionError">>
    /\ attempts = <<"ConnectionError", "ConnectionError", "ConnectionError">>

(***************************************************************************)
(* C26.  Whatever calls of get_score came before and whatever they cached, *)
(* the score a call of get_score returns is the score of the call's own    *)
(* arguments.                                                              *)
(***************************************************************************)
ScoreIsOfOwnArguments ==
    (score_pc = "idle" /\ score_answer.kind = "return")
    => score_answer.value = ExpectedScore(score_args)

(***************************************************************************)
(* What a call of a wrapped method has done so far, and how it may end.    *)
(***************************************************************************)
Finished == store_pc = "idle" /\ answer # NoResult

\* the attempts before the last one
Earlier(outcomes) == SubSeq(outcomes, 1, Len(outcomes) - 1)

\* what the storage gives to the call
StorageResult == IF call.method = "cache_set" THEN "True" ELSE storage[call.key]

\* at most 3 attempts, and none after an attempt that did not raise
\* ConnectionError
AttemptsStopAtFirstAnswer ==
    /\ Len(attempts) <= 3
    /\ AllConnectionErrors(Earlier(attempts))

\* a call that ended returned the result of its last attempt, or made 3
\* failed attempts and returned None (silent) or raised ConnectionError
EndsWithResultNoneOrConnectionError ==
    Finished =>
        \/ /\ attempts # <<>>
           /\ attempts[Len(attempts)] = "return"
           /\ answer = Return(StorageResult)
        \/ /\ Len(attempts) = 3
           /\ AllConnectionErrors(attempts)
           /\ answer = IF call.method = "get" THEN Raise("ConnectionError")
                       ELSE Return("None")

\* ... or raised the exception of its last attempt
EndsWithItsLastAttempt ==
    Finished =>
        \/ /\ attempts # <<>>
           /\ attempts[Len(attempts)] = "return"
           /\ answer = Return(StorageResult)
        \/ /\ attempts # <<>>
           /\ attempts[Len(attempts)] = "Exception"
           /\ answer = Raise("Exception")
        \/ /\ Len(attempts) = 3
           /\ AllConnectionErrors(attempts)
           /\ answer = IF call.method = "get" THEN Raise("ConnectionError")
                       ELSE Return("None")

(***************************************************************************)
(* C25, as stated.  The wrapper makes at most 3 calls of the wrapped       *)
(* function and none after the first that does not raise ConnectionError;  *)
(* every call of the wrapper ends, and it ends with that call's result,    *)
(* with None (silent) or with ConnectionError (not silent) after the last  *)
(* failed attempt.                                                         *)
(***************************************************************************)
RetryEndsInOneOfThreeWays ==
    /\ [](AttemptsStopAtFirstAnswer /\ EndsWithResultNoneOrConnectionError)
    /\ (store_pc # "idle") ~> Finished

(***************************************************************************)
(* C25, amended.  The same, and a call of the wrapped function that raises *)
(* another exception than ConnectionError ends the wrapper with that       *)
(* exception.                                                              *)
(***************************************************************************)
RetryEndsOrPropagates ==
    /\ [](AttemptsStopAtFirstAnswer /\ EndsWithItsLastAttempt)
    /\ (store_pc # "idle") ~> Finished

\* Store.get has returned the stored value at its third attempt
GetReturnedAtThirdAttempt ==
    /\ Finished
    /\ call.method = "get"
    /\ attempts = <<"ConnectionError", "ConnectionError", "return">>
    /\ answer = Return("1")

(***************************************************************************)
(* The samples recorded in the statistics map.                             *)
(***************************************************************************)
RECURSIVE SampleCount(_)
SampleCount(stats) ==
    IF stats = <<>> THEN 0 ELSE Len(stats[1].data) + SampleCount(Tail(stats))

RECURSIVE SeqSum(_)
SeqSum(data) == IF data = <<>> THEN 0 ELSE data[1] + SeqSum(Tail(data))

RECURSIVE SampleSum(_)
SampleSum(stats) ==
    IF stats = <<>> THEN 0 ELSE SeqSum(stats[1].data) + SampleSum(Tail(stats))

KeysOf(stats) == {stats[i].url : i \in 1..Len(stats)}

(***************************************************************************)
(* C23.  After every prefix of the lines read by calculate_statistics:     *)
(* processed <= total; the recorded samples of all paths are processed     *)
(* many; a path is a key of the statistics map exactly when a line of the  *)
(* prefix was parsed for it, no key is there twice or without a sample;    *)
(* and processed_request_time is the sum of all recorded samples, which    *)
(* are the request times of the parsed lines of the prefix.                *)
(***************************************************************************)
LoopInvariantsHold ==
    pc = "parse_log" =>
        LET prefix == SubSeq(logLines, 1, pos)
        IN  /\ total = pos
            /\ processed <= total
            /\ processed = Cardinality(ParsedIndexes(prefix))
            /\ SampleCount(statistics) = processed
            /\ KeysOf(statistics) = PathsOf(prefix)
            /\ Cardinality(KeysOf(statistics)) = Len(statistics)
            /\ \A i \in 1..Len(statistics) : statistics[i].data # <<>>
            /\ processed_request_time = SampleSum(statistics)
            /\ processed_request_time = TotalTime(prefix, ParsedIndexes(prefix))

\* the three lines of test_log_1 have been read: two samples for /api1
TestLog1Read ==
    /\ pc = "parse_log"
    /\ pos = 3
    /\ logLines = <<LineApi1, LineApi1Slow, LineApi2>>
    /\ statistics = << [url |-> Api1, data |-> <<1000, 1400>>],
                       [url |-> Api2, data |-> <<2000>>] >>
    /\ processed_request_time = 4400

(***************************************************************************)
(* C24.  Whenever a run ends in UP_TO_DATE, the report file it found is    *)
(* complete: it was there before the first run, or it holds the rendered   *)
(* template.                                                               *)
(***************************************************************************)
UpToDateReportIsComplete ==
    \A i \in 1..Len(history) :
        history[i].outcome = "UP_TO_DATE"
        => LET n     == ReportOf(history[i].selected)
               found == history[i].before[n]
           IN  \/ /\ n \in DOMAIN history[1].before
                  /\ found = history[1].before[n]
               \/ /\ templateFile.exists
                  /\ found.text = templateFile.text

(***************************************************************************)
(* The six kinds of optional fields, their types and their empty values.   *)
(***************************************************************************)
OptionalKinds == {"char", "phone", "email", "date", "birthday", "gender"}

AllowedTypes(kind) ==
    CASE kind = "phone" -> {"str", "int", "bool"}
      [] kind = "gender" -> {"int", "bool"}
      [] OTHER -> {"str"}

EmptyValues(kind) ==
    CASE kind = "phone" -> {PyStr(""), PyInt("0")}
      [] kind = "gender" -> {PyInt("0")}
      [] OTHER -> {PyStr("")}

(***************************************************************************)
(* C22.  For a field of one of the six kinds with required=False and       *)
(* nullable=True, is_valid(None) and is_valid of the kind's empty value    *)
(* are valid, and validate raises TypeError for every value other than     *)
(* None whose type is not allowed for the kind.  For every field and       *)
(* value is_valid does not raise, and it returns (False, message) with a   *)
(* message exactly when validate raises, (True, '') otherwise.             *)
(***************************************************************************)
OptionalFieldsValidate ==
    field_pc = "checked" =>
        /\ (field.kind \in OptionalKinds /\ ~field.required /\ field.nullable)
           => /\ field_value = PyNone => checked.valid
              /\ field_value \in EmptyValues(field.kind) => checked.valid
              /\ (field_value # PyNone /\ field_value.type \notin AllowedTypes(field.kind))
                 => validated = "TypeError"
        /\ checked.raised = NoException
        /\ validated # NoException => (~checked.valid /\ checked.error_msg # "")
        /\ validated = NoException => (checked.valid /\ checked.error_msg = "")

\* an optional gender field has refused a text with TypeError
GenderRefusedText ==
    /\ field_pc = "checked"
    /\ field = [kind |-> "gender", required |-> FALSE, nullable |-> TRUE]
    /\ field_value = PyStr("value")
    /\ validated = "TypeError"
    /\ checked = [raised |-> NoException, valid |-> FALSE, error_msg |-> "TypeError(...)"]

\* the token is the digest check_auth expects; no digest exists for an
\* account or a login that is no text
TokenMatches(values, now) == ~AuthRaises(values) /\ check_auth(values, now)

\* the code the first failing check decides, in the order of method_handler
FirstFailingCheck(request, now) ==
    IF Errors(MethodRequest, request.fields, now) # {} THEN INVALID_REQUEST
    ELSE IF ~TokenMatches(request.fields, now) THEN FORBIDDEN
    ELSE IF request.fields.method.text \notin Handlers THEN NOT_FOUND
    ELSE IF \/ /\ request.fields.method.text = "online_score"
               /\ \/ Errors(OnlineScoreRequest, request.args, now) # {}
                  \/ ~HasPair(request.args)
            \/ /\ request.fields.method.text = "clients_interests"
               /\ Errors(ClientsInterestsRequest, request.args, now) # {}
    THEN INVALID_REQUEST
    ELSE OK

\* what the store or json.loads raised inside handler.get_response
RaisedInGetResponse == handler_answer.what \in {"ConnectionError", "Exception", "JSONDecodeError"}

(***************************************************************************)
(* C27.  When method_handler has ended for a body that is an object, the   *)
(* first failing check decided the code: 422 for invalid MethodRequest     *)
(* fields, otherwise 403 for a token that does not match the expected      *)
(* digest, otherwise 404 for an unknown method, otherwise 422 for invalid  *)
(* method arguments, otherwise 200.  In particular a body that passes      *)
(* MethodRequest validation and carries a wrong token, account absent or   *)
(* not, gets 403 returned and no exception raised.                         *)
(***************************************************************************)
MethodHandlerChecksInOrder ==
    (http_pc = "handled" /\ http_request.body.type = "dict") =>
        /\ handler_answer.kind = "return"
           => handler_answer.code = FirstFailingCheck(http_request, field_now)
        /\ handler_answer.kind = "raise" => RaisedInGetResponse
        /\ ( /\ Errors(MethodRequest, http_request.fields, field_now) = {}
             /\ ~TokenMatches(http_request.fields, field_now) )
           => (handler_answer.kind = "return" /\ handler_answer.code = FORBIDDEN)

(***************************************************************************)
(* C28.  Every response do_POST has sent carries 400 when the body was not *)
(* valid JSON, otherwise 404 when the path was not routed, otherwise 500   *)
(* when the routed handler raised and the code the handler returned when   *)
(* it returned; 200 was sent only if the routed handler ran and returned   *)
(* 200.  One response is sent per request: while a request is being        *)
(* served no response for it is in the list, and the list grows by one     *)
(* when it has been served.                                                *)
(***************************************************************************)
ResponseCodeFollowsRequest ==
    \A i \in 1..Len(responses) :
        LET r == responses[i]
        IN  /\ ~r.json => r.code = BAD_REQUEST
            /\ (r.json /\ ~r.routed) => r.code = NOT_FOUND
            /\ (r.json /\ r.routed /\ r.handler = "raise") => r.code = INTERNAL_ERROR
            /\ (r.json /\ r.routed /\ r.handler = "return") => r.code = r.handler_code
            /\ r.code = OK => (r.routed /\ r.handler = "return" /\ r.handler_code = OK)

=============================================================================
